---------------------------- MODULE Spec2Model ----------------------------
(***************************************************************************)
(* A model of odsutils: the schema registry (ods_standard.Standard), the   *)
(* record store (ods_engine.ODSInstance), the reconciliation algorithms    *)
(* (ods_check.ODSCheck, ods_tools.sort_entries) and the engine facade      *)
(* (ods_engine.ODS).                                                       *)
(*                                                                         *)
(* Values.  A Python value held by a record field is a record [k, a, b]:   *)
(*   k = "none"  None                                                      *)
(*   k = "str"   a string that is neither a number nor a time; a indexes   *)
(*               the table "None" (0), "X" (1), "Y" (2), "abc" (3)          *)
(*   k = "num"   a float; a = 1, 2 stand for 10.5, 20.5                     *)
(*   k = "tstr"  a time string for second a of the model's day, spelled    *)
(*               "2025-01-01T00:00:0a" (b = 0, what isoformat writes),     *)
(*               "2025-01-01 00:00:0a" (b = 1, blank instead of T) or      *)
(*               "2025-01-01 00:00:0a.000" (b = 2, what str(Time) writes)  *)
(*   k = "time"  an astropy Time at second a                               *)
(* The schema is Standard_Version_A cut down to four of its eighteen       *)
(* fields: one float, one plain string and the two time fields.            *)
(***************************************************************************)
EXTENDS Integers, Sequences, FiniteSets, TLC

VARIABLES
    ods,               \* ODS.ods: instance name -> ODSInstance
    working_instance,  \* ODS.working_instance
    defaults,          \* ODS.defaults
    last,              \* the last facade call: what was called, on what, how it ended
    budget,            \* facade calls the behaviour may still make
    remote,            \* what the monitored URL serves
    logfile,           \* the monitor's log file: a sequence of rows, or absent
    arg,               \* input of the function under study (function-level specifications)
    res,               \* its result
    pc                 \* "call" before the function has run, "done" after

vars == <<ods, working_instance, defaults, last, budget, remote, logfile, arg, res, pc>>

-----------------------------------------------------------------------------
(* Bounds of the model *)

MaxT == 5          \* time instants are the seconds 0..MaxT of one day
MaxEntries == 3    \* longest record sequence a store or an input list holds
MaxOps == 3        \* facade calls per behaviour of the engine
MaxMergeOps == 5   \* facade calls per behaviour that builds two stores and merges them
MaxCycles == 3     \* monitor cycles and restarts per behaviour
MaxCullOps == 3    \* facade calls per behaviour that fills a store and culls it by time
MaxInstOps == 3    \* facade calls per behaviour that creates and resets instances
MaxDefaultsOps == 3  \* facade calls per behaviour that fills a store and derives defaults
MaxRoundOps == 3   \* facade calls per behaviour that fills a store and writes it
MaxDedupOps == 3   \* facade calls per behaviour that fills a store and removes duplicates

-----------------------------------------------------------------------------
(* Values *)

None == [k |-> "none", a |-> 0, b |-> 0]
Str(i) == [k |-> "str", a |-> i, b |-> 0]
Num(i) == [k |-> "num", a |-> i, b |-> 0]
TStr(t, style) == [k |-> "tstr", a |-> t, b |-> style]
Tm(t) == [k |-> "time", a |-> t, b |-> 0]

IsPyStr(v) == v.k \in {"str", "tstr"}

\* str(v), as a tuple of integers whose lexicographic order is the order of the
\* Python strings: "10.5" < "20.5" < "2025-01-01 ..." < "2025-01-01T..." <
\* "None" < "X" < "Y" < "abc"; str(Time) is "2025-01-01 00:00:0a.000".
StrForm(v) ==
    CASE v.k = "num"  -> <<1, v.a, 0, 0>>
      [] v.k = "tstr" -> IF v.b = 0 THEN <<2, 1, v.a, 0>>
                         ELSE <<2, 0, v.a, v.b - 1>>
      [] v.k = "time" -> <<2, 0, v.a, 1>>
      [] v.k = "none" -> <<3, 0, 0, 0>>
      [] OTHER        -> <<3 + v.a, 0, 0, 0>>

\* Python's ordering of tuples (and of strings): lexicographic, a proper prefix first.
RECURSIVE LexLess(_, _)
LexLess(s, t) ==
    IF s = <<>> THEN t # <<>>
    ELSE IF t = <<>> THEN FALSE
    ELSE IF Head(s) # Head(t) THEN Head(s) < Head(t)
    ELSE LexLess(Tail(s), Tail(t))

\* tools.make_time: Time(t); a ValueError for what astropy cannot parse.
make_time(v) ==
    IF v.k \in {"time", "tstr"} THEN [exc |-> "", v |-> Tm(v.a)]
    ELSE [exc |-> "ValueError", v |-> v]

\* tools.time2str: a str is returned as it is, a Time as
\* datetime.isoformat(timespec='seconds'); anything else has no .datetime.
time2str(v) ==
    IF IsPyStr(v) THEN [exc |-> "", v |-> v]
    ELSE IF v.k = "time" THEN [exc |-> "", v |-> TStr(v.a, 0)]
    ELSE [exc |-> "AttributeError", v |-> v]

-----------------------------------------------------------------------------
(* ods_standard: the schema *)

ods_fields == <<"site_lat_deg", "src_id", "src_start_utc", "src_end_utc">>
FieldSet == {ods_fields[i] : i \in DOMAIN ods_fields}
field_type ==
    [f \in FieldSet |-> IF f = "site_lat_deg" THEN "float" ELSE "str"]
\* A sort order that leaves src_id out.
sort_order_time_without_src_id == <<"src_start_utc", "src_end_utc", "site_lat_deg">>

sort_order_time == <<"src_start_utc", "src_end_utc", "site_lat_deg", "src_id">>
time_fields == <<"src_start_utc", "src_end_utc">>
TimeFieldSet == {time_fields[i] : i \in DOMAIN time_fields}
std_start == "src_start_utc"
std_stop == "src_end_utc"
REF_LATEST_TIME == 9
REF_EARLIEST_TIME == 0

\* The keys a record of the model may carry: the schema's and one unknown key.
\* Iteration over a record's keys follows this order.
AllKeys == ods_fields \o <<"foo">>
KeySet == {AllKeys[i] : i \in DOMAIN AllKeys}

\* ods_fields[key](value): float() raises ValueError on a non-numeric string and
\* TypeError on a Time; str() and float() of a float succeed.
Coerce(f, v) ==
    IF field_type[f] = "str" THEN ""
    ELSE IF v.k = "num" THEN ""
    ELSE IF IsPyStr(v) THEN "ValueError"
    ELSE "TypeError"

Msg(kind, key) == [m |-> kind, key |-> key]

\* First loop of Standard.valid: every key of the record, unknown or None.
RECURSIVE ValidKeys(_, _)
ValidKeys(rec, i) ==
    IF i > Len(AllKeys) THEN <<>>
    ELSE LET key == AllKeys[i]
             here == IF key \notin DOMAIN rec THEN <<>>
                     ELSE IF key \notin FieldSet THEN <<Msg("not an ods_field", key)>>
                     ELSE IF rec[key] = None THEN <<Msg("is None", key)>>
                     ELSE <<>>
         IN here \o ValidKeys(rec, i + 1)

\* Second loop: every schema field, missing or of the wrong type.  An exception
\* other than ValueError leaves the function.
RECURSIVE ValidFields(_, _)
ValidFields(rec, i) ==
    IF i > Len(ods_fields) THEN [exc |-> "", msg |-> <<>>]
    ELSE LET key == ods_fields[i]
             rest == ValidFields(rec, i + 1)
         IN IF key \notin DOMAIN rec
            THEN [rest EXCEPT !.msg = <<Msg("Missing ODS field", key)>> \o @]
            ELSE IF rec[key] = None THEN rest
            ELSE IF Coerce(key, rec[key]) = "" THEN rest
            ELSE IF Coerce(key, rec[key]) = "ValueError"
            THEN [rest EXCEPT !.msg = <<Msg("is wrong type", key)>> \o @]
            ELSE [exc |-> Coerce(key, rec[key]), msg |-> <<>>]

\* Third loop: rec[key] of every time field goes through make_time; rec[key]
\* itself is a KeyError when the record has no such key.
RECURSIVE ValidTimes(_, _)
ValidTimes(rec, i) ==
    IF i > Len(time_fields) THEN [exc |-> "", msg |-> <<>>]
    ELSE LET key == time_fields[i]
             rest == ValidTimes(rec, i + 1)
         IN IF key \notin DOMAIN rec THEN [exc |-> "KeyError", msg |-> <<>>]
            ELSE IF make_time(rec[key]).exc = "" THEN rest
            ELSE [rest EXCEPT !.msg = <<Msg("is not a valid Time", key)>> \o @]

\* Standard.valid(rec): (is_valid, msg), or the exception that ended it.
valid(rec) ==
    LET Returned(msg) == [exc |-> "", is_valid |-> msg = <<>>, msg |-> msg]
        Loops(m1, r2, r3) ==
            IF r2.exc # "" THEN [exc |-> r2.exc, is_valid |-> FALSE, msg |-> <<>>]
            ELSE IF r3.exc # "" THEN [exc |-> r3.exc, is_valid |-> FALSE, msg |-> <<>>]
            ELSE Returned(m1 \o r2.msg \o r3.msg)
    IN Loops(ValidKeys(rec, 1), ValidFields(rec, 1), ValidTimes(rec, 1))

-----------------------------------------------------------------------------
(* ods_tools.sort_entries *)

\* The sort key of record i: str(rec[key]) for every term, then the position
\* unless collapse.  A record without a term is a KeyError.
RECURSIVE TermForms(_, _, _)
TermForms(rec, terms, j) ==
    IF j > Len(terms) THEN <<>>
    ELSE StrForm(rec[terms[j]]) \o TermForms(rec, terms, j + 1)

HasTerms(rec, terms) == \A j \in DOMAIN terms : terms[j] \in DOMAIN rec

\* A sort key that carries the position whatever collapse says.
sort_key_with_position(lst, terms, collapse, i) ==
    TermForms(lst[i], terms, 1) \o <<i>>

\* A sort key that leaves the position out whatever collapse says.
sort_key_without_position(lst, terms, collapse, i) ==
    TermForms(lst[i], terms, 1)

sort_key(lst, terms, collapse, i) ==
    TermForms(lst[i], terms, 1) \o (IF collapse THEN <<>> ELSE <<i>>)

\* sorted(keys): the keys in ascending order.
RECURSIVE SortedKeys(_)
SortedKeys(K) ==
    IF K = {} THEN <<>>
    ELSE LET lo == CHOOSE x \in K : \A y \in K \ {x} : LexLess(x, y)
         IN <<lo>> \o SortedKeys(K \ {lo})

Reverse(s) == [i \in 1..Len(s) |-> s[Len(s) + 1 - i]]

sort_entries(lst, terms, collapse, reverse) ==
    IF \E i \in DOMAIN lst : ~HasTerms(lst[i], terms)
    THEN [exc |-> "KeyError", out |-> <<>>]
    ELSE LET \* entries[sort_key] = i: a later record with the same key replaces the earlier
             entries(k) == CHOOSE i \in DOMAIN lst :
                              /\ sort_key(lst, terms, collapse, i) = k
                              /\ \A j \in DOMAIN lst :
                                    sort_key(lst, terms, collapse, j) = k => j <= i
             InOrder(ord) == [exc |-> "", out |-> [n \in 1..Len(ord) |-> lst[entries(ord[n])]]]
             Sorted(asc) == InOrder(IF reverse THEN Reverse(asc) ELSE asc)
         IN Sorted(SortedKeys({sort_key(lst, terms, collapse, i) : i \in DOMAIN lst}))

-----------------------------------------------------------------------------
(* ods_engine.ODSInstance *)

NoInputSets == [f \in FieldSet |-> {}]

\* ODSInstance.__init__.  entries_is_list is FALSE once the entries attribute
\* has been bound to something that is not a list.  earliest and latest are
\* set by gen_info only; None stands for the attribute not being there.
ODSInstance(name) ==
    [name |-> name,
     input |-> "init",
     entries |-> <<>>,
     entries_is_list |-> TRUE,
     valid_records |-> <<>>,
     invalid_records |-> [i \in {} |-> <<>>],
     number_of_records |-> 0,
     input_sets |-> NoInputSets,
     input_sets_invalid |-> {},
     earliest |-> None,
     latest |-> None,
     time_format |-> "string"]

\* A record built with the defaults taking precedence over the entry.
BuildRecordDefaultsFirst(entry, dflt) ==
    [key \in FieldSet |->
        IF key \in DOMAIN dflt THEN dflt[key]
        ELSE IF key \in DOMAIN entry THEN entry[key]
        ELSE None]

\* ODSInstance.new_record: every schema field, from entry, else from defaults,
\* else None; appended to entries.
BuildRecord(entry, dflt) ==
    [key \in FieldSet |->
        IF key \in DOMAIN entry THEN entry[key]
        ELSE IF key \in DOMAIN dflt THEN dflt[key]
        ELSE None]

new_record(st, entry, dflt) ==
    [st EXCEPT !.entries = Append(@, BuildRecord(entry, dflt))]

\* The conversion of one entry's time fields, key by key (make_time's and
\* convert_time_to_str's inner loop).  entry[key] of an absent key is a KeyError.
Conv(to, v) == IF to = "time" THEN make_time(v) ELSE time2str(v)

RECURSIVE ConvertEntry(_, _, _)
ConvertEntry(rec, to, j) ==
    IF j > Len(time_fields) THEN [exc |-> "", rec |-> rec]
    ELSE LET key == time_fields[j]
         IN IF key \notin DOMAIN rec THEN [exc |-> "KeyError", rec |-> rec]
            ELSE LET Converted(c) ==
                         IF c.exc # "" THEN [exc |-> c.exc, rec |-> rec]
                         ELSE ConvertEntry([rec EXCEPT ![key] = c.v], to, j + 1)
                 IN Converted(Conv(to, rec[key]))

\* The outer loop: the entries before the one that raises stay converted.
RECURSIVE ConvertEntries(_, _, _)
ConvertEntries(entries, to, i) ==
    IF i > Len(entries) THEN [exc |-> "", entries |-> entries]
    ELSE LET Converted(c) ==
                 IF c.exc # "" THEN [exc |-> c.exc, entries |-> [entries EXCEPT ![i] = c.rec]]
                 ELSE ConvertEntries([entries EXCEPT ![i] = c.rec], to, i + 1)
         IN Converted(ConvertEntry(entries[i], to, 1))

\* A conversion that converts every entry whatever the flag says.
ConvertStoreWhateverTheFlag(st, to) ==
    IF ~st.entries_is_list
    THEN [exc |-> "TypeError", st |-> [st EXCEPT !.time_format = to]]
    ELSE LET Converted(c) ==
                 [exc |-> c.exc,
                  st |-> [st EXCEPT !.time_format = to, !.entries = c.entries]]
         IN Converted(ConvertEntries(st.entries, to, 1))

\* ODSInstance.make_time / convert_time_to_str: nothing when the flag already
\* names the form; else the flag is set first and every entry converted.
\* Iterating over entries that are not a list is a TypeError.
ConvertStore(st, to) ==
    IF st.time_format = to THEN [exc |-> "", st |-> st]
    ELSE IF ~st.entries_is_list
    THEN [exc |-> "TypeError", st |-> [st EXCEPT !.time_format = to]]
    ELSE LET Converted(c) ==
                 [exc |-> c.exc,
                  st |-> [st EXCEPT !.time_format = to, !.entries = c.entries]]
         IN Converted(ConvertEntries(st.entries, to, 1))

inst_make_time(st) == ConvertStore(st, "time")

convert_time_to_str(st) == ConvertStore(st, "string")

\* x < y in Python: two Times, or a Time and a string astropy parses, compare
\* as instants; two strings compare as strings; anything else is a TypeError.
IsTimeLike(v) == v.k \in {"time", "tstr"}

\* x <= y where the code has x < y.
PyLessOrEqual(x, y) ==
    IF IsTimeLike(x) /\ IsTimeLike(y) /\ (x.k = "time" \/ y.k = "time")
    THEN [exc |-> "", b |-> x.a <= y.a]
    ELSE IF IsPyStr(x) /\ IsPyStr(y)
    THEN [exc |-> "", b |-> ~LexLess(StrForm(y), StrForm(x))]
    ELSE [exc |-> "TypeError", b |-> FALSE]

PyLess(x, y) ==
    IF IsTimeLike(x) /\ IsTimeLike(y) /\ (x.k = "time" \/ y.k = "time")
    THEN [exc |-> "", b |-> x.a < y.a]
    ELSE IF IsPyStr(x) /\ IsPyStr(y)
    THEN [exc |-> "", b |-> LexLess(StrForm(x), StrForm(y))]
    ELSE [exc |-> "TypeError", b |-> FALSE]

\* gen_info's inner loop over entry.items(), from key i on: the value joins the
\* field's input set; the start narrows earliest, the stop widens latest; a key
\* that is no field joins the 'invalid' bucket.
RECURSIVE GenInfoItems(_, _, _)
GenInfoItems(st, entry, i) ==
    IF i > Len(AllKeys) THEN [exc |-> "", st |-> st]
    ELSE LET key == AllKeys[i]
         IN IF key \notin DOMAIN entry THEN GenInfoItems(st, entry, i + 1)
            ELSE IF key \notin FieldSet
            THEN GenInfoItems([st EXCEPT !.input_sets_invalid = @ \cup {key}],
                              entry, i + 1)
            ELSE LET val == entry[key]
                     s1 == [st EXCEPT !.input_sets[key] = @ \cup {val}]
                     Earlier(c) ==
                         IF c.exc # "" THEN [exc |-> c.exc, st |-> s1]
                         ELSE GenInfoItems(
                                 IF c.b THEN [s1 EXCEPT !.earliest = val] ELSE s1,
                                 entry, i + 1)
                     Later(c) ==
                         IF c.exc # "" THEN [exc |-> c.exc, st |-> s1]
                         ELSE GenInfoItems(
                                 IF c.b THEN [s1 EXCEPT !.latest = val] ELSE s1,
                                 entry, i + 1)
                 IN IF key = std_start THEN Earlier(PyLess(val, s1.earliest))
                    ELSE IF key = std_stop THEN Later(PyLess(s1.latest, val))
                    ELSE GenInfoItems(s1, entry, i + 1)

\* gen_info's loop over the entries, from entry ctr on (positions count from 1).
RECURSIVE GenInfoEntries(_, _)
GenInfoEntries(st, ctr) ==
    IF ctr > Len(st.entries) THEN [exc |-> "", st |-> st]
    ELSE LET Entry(it, v) ==
                 IF it.exc # "" THEN it
                 ELSE IF v.exc # "" THEN [exc |-> v.exc, st |-> it.st]
                 ELSE IF v.is_valid
                 THEN GenInfoEntries(
                         [it.st EXCEPT !.valid_records = Append(@, ctr)], ctr + 1)
                 ELSE GenInfoEntries(
                         [it.st EXCEPT !.invalid_records =
                             [n \in DOMAIN @ \cup {ctr} |->
                                 IF n = ctr THEN v.msg ELSE @[n]]],
                         ctr + 1)
         IN Entry(GenInfoItems(st, st.entries[ctr], 1), valid(st.entries[ctr]))

\* ODSInstance.gen_info.  The input sets are not emptied first.
gen_info(st) ==
    LET Loop(s1) ==
            IF ~s1.entries_is_list THEN [exc |-> "TypeError", st |-> s1]
            ELSE GenInfoEntries(
                    [s1 EXCEPT !.number_of_records = Len(s1.entries),
                               !.invalid_records = [i \in {} |-> <<>>],
                               !.valid_records = <<>>],
                    1)
        Made(m) ==
            IF m.exc # "" THEN m
            ELSE Loop([m.st EXCEPT !.earliest = Tm(REF_LATEST_TIME),
                                   !.latest = Tm(REF_EARLIEST_TIME)])
    IN Made(inst_make_time(st))

\* What read is handed as ods_input: a mapping, with or without the data key
\* 'ods_data'; a str, the name of a json file; or anything else.
Mapping(data) == [kind |-> "dict", has_data_key |-> TRUE, data |-> data]

NoDataKey == [kind |-> "dict", has_data_key |-> FALSE, data |-> <<>>]

FileName == [kind |-> "str", has_data_key |-> FALSE, data |-> <<>>]

NoInput == [kind |-> "other", has_data_key |-> FALSE, data |-> <<>>]

\* tools.read_json_file: its parameter is file_name and its body reads the
\* local filename before assigning it.
read_json_file == [exc |-> "UnboundLocalError"]

\* ODSInstance.read.  A mapping: input is set, the records under the data key
\* are appended, the aggregates recomputed, and the flag set to 'string'.  A
\* str goes through read_json_file.  Anything else returns False.
read(st, ods_input) ==
    LET Informed(g) ==
            IF g.exc # "" THEN g
            ELSE [exc |-> "", st |-> [g.st EXCEPT !.time_format = "string"]]
    IN IF ods_input.kind = "dict"
       THEN IF ~ods_input.has_data_key
            THEN [exc |-> "KeyError", st |-> [st EXCEPT !.input = "dictionary"]]
            ELSE Informed(gen_info([st EXCEPT !.input = "dictionary",
                                              !.entries = @ \o ods_input.data]))
       ELSE IF ods_input.kind = "str"
       THEN [exc |-> read_json_file.exc, st |-> st]
       ELSE [exc |-> "", st |-> st]

\* What json.dump writes for a value: null for None, a number for a float,
\* the string itself for a str; a Time is not JSON serializable (TypeError).
JsonText(v) ==
    IF v.k = "time" THEN [exc |-> "TypeError", j |-> "", t |-> <<>>]
    ELSE IF v.k = "none" THEN [exc |-> "", j |-> "null", t |-> <<>>]
    ELSE IF v.k = "num" THEN [exc |-> "", j |-> "number", t |-> StrForm(v)]
    ELSE [exc |-> "", j |-> "string", t |-> StrForm(v)]

\* tools.write_json_file(file_name, {data_key: entries}): the file is opened
\* for writing and json.dump writes the records one after the other, from
\* record i on; at a value it cannot encode it raises and the file keeps what
\* was written before.
RECURSIVE write_json_file(_, _, _)
write_json_file(entries, i, data) ==
    IF i > Len(entries)
    THEN [exc |-> "", file |-> [exists |-> TRUE, complete |-> TRUE, data |-> data]]
    ELSE IF \E k \in DOMAIN entries[i] : JsonText(entries[i][k]).exc # ""
    THEN [exc |-> "TypeError",
          file |-> [exists |-> TRUE, complete |-> FALSE, data |-> data]]
    ELSE write_json_file(entries, i + 1,
            Append(data, [k \in DOMAIN entries[i] |-> JsonText(entries[i][k])]))

\* ODSInstance.write: to string form, then the json file is written.
write(st, file) ==
    LET Written(c, w) == [exc |-> w.exc, st |-> c.st, file |-> w.file]
        Converted(c) ==
            IF c.exc # "" THEN [exc |-> c.exc, st |-> c.st, file |-> file]
            ELSE Written(c, write_json_file(c.st.entries, 1, <<>>))
    IN Converted(convert_time_to_str(st))

-----------------------------------------------------------------------------
(* ods_check.ODSCheck.is_same and is_duplicate *)

\* Two records compared on the fields both of them have.
is_same_on_shared_fields(rec1, rec2) ==
    \A key \in FieldSet \cap DOMAIN rec1 \cap DOMAIN rec2 :
        StrForm(rec1[key]) = StrForm(rec2[key])

\* The loop of is_same over the schema's fields, from field i on: a field
\* whose string forms differ, or that a record does not have (KeyError), ends
\* it with False.
RECURSIVE SameFrom(_, _, _)
SameFrom(rec1, rec2, i) ==
    IF i > Len(ods_fields) THEN TRUE
    ELSE LET key == ods_fields[i]
         IN IF key \notin DOMAIN rec1 \/ key \notin DOMAIN rec2 THEN FALSE
            ELSE IF StrForm(rec1[key]) # StrForm(rec2[key]) THEN FALSE
            ELSE SameFrom(rec1, rec2, i + 1)

is_same(rec1, rec2) == SameFrom(rec1, rec2, 1)

\* The loop of is_duplicate over the entries, from entry i on.
RECURSIVE DuplicateFrom(_, _, _)
DuplicateFrom(entries, record, i) ==
    IF i > Len(entries) THEN FALSE
    ELSE IF is_same(entries[i], record) THEN TRUE
    ELSE DuplicateFrom(entries, record, i + 1)

is_duplicate(st, record) == DuplicateFrom(st.entries, record, 1)

-----------------------------------------------------------------------------
(* ods_check.ODSCheck.observation.  The elevation of the source at an        *)
(* instant comes from astropy's transform; here it is a table alt the caller *)
(* supplies, instant -> degrees.                                             *)

\* The while loop of lines 182-184: this_step, this_step + dt, ... as long as
\* this_step < stop.
RECURSIVE SampleTimes(_, _, _)
SampleTimes(this_step, stop, dt) ==
    IF ~(this_step < stop) THEN <<>>
    ELSE <<this_step>> \o SampleTimes(this_step + dt, stop, dt)

\* What a call of observation hands back: an exception, False, or the tuple
\* of two isoformat strings.
TimeLimits(exc, value, lo, hi) ==
    [exc |-> exc, value |-> value, first |-> lo, last |-> hi]

\* ODSCheck.observation(rec, el_lim_deg, dt_sec).  empty_time is what
\* astropy's Time makes of an empty list, which make_time(times) hands it
\* when the loop took no sample: "ValueError" (it cannot guess a format) or
\* "empty" (an empty Time, for which no elevation exceeds the limit).
observation(rec, el_lim_deg, dt_sec, alt, empty_time) ==
    LET Above(times) == SelectSeq(times, LAMBDA t : alt[t] > el_lim_deg)
        Limits(above) ==
            IF Len(above) = 0 THEN TimeLimits("", "False", None, None)
            ELSE TimeLimits("", "tuple", TStr(above[1], 0), TStr(above[Len(above)], 0))
        Located(times) ==
            IF "site_lat_deg" \notin DOMAIN rec THEN TimeLimits("KeyError", "", None, None)
            ELSE IF Coerce("site_lat_deg", rec["site_lat_deg"]) # ""
            THEN TimeLimits(Coerce("site_lat_deg", rec["site_lat_deg"]), "", None, None)
            ELSE Limits(Above(times))
        Sampled(times) ==
            IF times = <<>> /\ empty_time = "ValueError"
            THEN TimeLimits("ValueError", "", None, None)
            ELSE Located(times)
        Timed(start, stop) ==
            IF start.exc # "" \/ stop.exc # "" THEN TimeLimits("ValueError", "", None, None)
            ELSE Sampled(SampleTimes(start.v.a, stop.v.a, dt_sec))
    IN IF std_start \notin DOMAIN rec \/ std_stop \notin DOMAIN rec
       THEN TimeLimits("KeyError", "", None, None)
       ELSE Timed(make_time(rec[std_start]), make_time(rec[std_stop]))

-----------------------------------------------------------------------------
(* ods_check.ODSCheck.continuity *)

\* What a caller hands to continuity as `ods`: the ODSInstance itself
\* (update_by_continuity does: it has .standard and cannot be enumerated) or a
\* list of records (the docstring's reading: enumerable, without .standard).
AsInstance(st) == [has_standard |-> TRUE, iterable |-> FALSE, items |-> st.entries]

AsList(lst) == [has_standard |-> FALSE, iterable |-> TRUE, items |-> lst]

\* The walk over adjacent pairs of the sorted copy, from pair i on
\* (lines 225-237); warn records "still need to fix".
RECURSIVE ContinuityWalk(_, _, _, _, _)
ContinuityWalk(adj, offset, adjust, i, warn) ==
    IF i > Len(adj) - 1 THEN [exc |-> "", warn |-> warn, out |-> adj]
    ELSE LET ts == make_time(adj[i][std_stop])
             ns == make_time(adj[i + 1][std_start])
         IN IF ts.exc # "" \/ ns.exc # ""
            THEN [exc |-> "ValueError", warn |-> warn, out |-> adj]
            ELSE IF ns.v.a < ts.v.a
            THEN LET next_start == IF adjust = "start" THEN ts.v.a + offset ELSE ns.v.a
                     this_stop == IF adjust = "stop" THEN ns.v.a - offset ELSE ts.v.a
                     upd == [adj EXCEPT ![i][std_stop] = TStr(this_stop, 0),
                                        ![i + 1][std_start] = TStr(next_start, 0)]
                 IN ContinuityWalk(upd, offset, adjust, i + 1,
                                   warn \/ next_start < this_stop)
            ELSE ContinuityWalk(adj, offset, adjust, i + 1, warn)

\* ODSCheck.continuity(ods, time_offset_sec, adjust).  An adjust other than
\* 'start' or 'stop' returns ods itself.  Otherwise ods.standard is read (a
\* list has none) and ods is handed to sort_entries, which enumerates it (an
\* ODSInstance cannot be enumerated).
continuity(obj, offset, adjust) ==
    IF adjust \notin {"start", "stop"}
    THEN [exc |-> "", warn |-> TRUE, same |-> TRUE, out |-> <<>>]
    ELSE IF ~obj.has_standard
    THEN [exc |-> "AttributeError", warn |-> FALSE, same |-> FALSE, out |-> <<>>]
    ELSE IF ~obj.iterable
    THEN [exc |-> "TypeError", warn |-> FALSE, same |-> FALSE, out |-> <<>>]
    ELSE LET Walked(w) == [exc |-> w.exc, warn |-> w.warn, same |-> FALSE, out |-> w.out]
             Sorted(s) ==
                 IF s.exc # ""
                 THEN [exc |-> s.exc, warn |-> FALSE, same |-> FALSE, out |-> <<>>]
                 ELSE Walked(ContinuityWalk(s.out, offset, adjust, 1, FALSE))
         IN Sorted(sort_entries(obj.items, <<std_start, std_stop>>, FALSE, FALSE))

-----------------------------------------------------------------------------
(* ods_check.ODSCheck.coverage *)

\* The while loop of coverage (lines 261-265): this_time starts one step
\* before ods_start and is advanced, then every entry is visited and "CHECK"
\* printed; the instants visited are collected here, the code keeps none.
RECURSIVE CoverageLoop(_, _, _, _)
CoverageLoop(this_time, ods_stop, dt, visited) ==
    IF ~(this_time < ods_stop) THEN visited
    ELSE CoverageLoop(this_time + dt, ods_stop, dt, Append(visited, this_time + dt))

\* What a call of coverage hands back: an exception, or the value returned.
\* is_pair says whether that value is a (ticks, flags) pair; visited is the
\* loop's local record of the instants it went over.
Covered(exc, is_pair, ticks, flags, visited) ==
    [exc |-> exc, is_pair |-> is_pair, ticks |-> ticks, flags |-> flags,
     visited |-> visited]

\* ODSCheck.coverage(ods, time_step_min).  The records are sorted by start and
\* stop, the span runs from the first record's start to the last record's
\* stop (an IndexError on no record), the loop runs, and the function ends
\* there: it has no return statement, so it returns None.
coverage(st, time_step_min) ==
    LET Spanned(a, b) ==
            IF a.exc # "" \/ b.exc # "" THEN Covered("ValueError", FALSE, <<>>, <<>>, <<>>)
            ELSE Covered("", FALSE, <<>>, <<>>,
                         CoverageLoop(a.v.a - time_step_min, b.v.a, time_step_min, <<>>))
        Sorted(s) ==
            IF s.exc # "" THEN Covered(s.exc, FALSE, <<>>, <<>>, <<>>)
            ELSE IF Len(s.out) = 0 THEN Covered("IndexError", FALSE, <<>>, <<>>, <<>>)
            ELSE Spanned(make_time(s.out[1][std_start]),
                         make_time(s.out[Len(s.out)][std_stop]))
    IN Sorted(sort_entries(st.entries, <<std_start, std_stop>>, FALSE, FALSE))

-----------------------------------------------------------------------------
(* ods_engine.ODS: the facade.  An engine value is [ods, working_instance,   *)
(* defaults]; a facade method maps it to [exc, warn, eng]: the exception     *)
(* that ended the call ("" for none), whether a warning or an error was      *)
(* logged, and the engine as the call left it.                               *)

NoName == ""     \* name=None

Eng(o, w, d) == [ods |-> o, working_instance |-> w, defaults |-> d]

Ret(exc, warn, eng) == [exc |-> exc, warn |-> warn, eng |-> eng]

SetStore(E, n, st) ==
    [E EXCEPT !.ods = [x \in DOMAIN E.ods |-> IF x = n THEN st ELSE E.ods[x]]]

\* ODS.get_instance_name: None is the working instance; a name that is no
\* instance logs an error and yields None, and self.ods[None] is a KeyError.
get_instance_name(E, name) ==
    IF name = NoName THEN [exc |-> "", name |-> E.working_instance]
    ELSE IF name \in DOMAIN E.ods THEN [exc |-> "", name |-> name]
    ELSE [exc |-> "KeyError", name |-> NoName]

\* ODS.ods_instance: a warning when the name exists, else a blank instance.
ods_instance(E, name, set_as_working) ==
    IF name \in DOMAIN E.ods THEN Ret("", TRUE, E)
    ELSE LET o == [x \in DOMAIN E.ods \cup {name} |->
                      IF x = name THEN ODSInstance(name) ELSE E.ods[x]]
         IN Ret("", FALSE,
                [E EXCEPT !.ods = o,
                          !.working_instance = IF set_as_working THEN name ELSE @])

\* What reset_ods_instances is handed as instances: 'all', or the names that
\* listify makes of a list or of a comma-separated string.
AllInstances == [all |-> TRUE, names |-> <<>>]

TheInstances(names) == [all |-> FALSE, names |-> names]

\* The loop of reset_ods_instances, from name i on: self.ods[name] is bound to
\* what ods_instance returns, and ods_instance returns nothing; a name that
\* is no instance logs a warning.
RECURSIVE ResetLoop(_, _, _, _)
ResetLoop(E, names, i, warn) ==
    IF i > Len(names) THEN Ret("", warn, E)
    ELSE IF names[i] \in DOMAIN E.ods
    THEN ResetLoop(SetStore(ods_instance(E, names[i], FALSE).eng, names[i], None),
                   names, i + 1, TRUE)
    ELSE ResetLoop(E, names, i + 1, TRUE)

\* ODS.reset_ods_instances: 'all' empties self.ods and creates the working
\* instance; otherwise the loop.
reset_ods_instances(E, instances) ==
    IF instances.all
    THEN ods_instance([E EXCEPT !.ods = <<>>], E.working_instance, FALSE)
    ELSE ResetLoop(E, instances.names, 1, FALSE)

\* ODS.__init__: reset_ods_instances('all') and empty defaults.
NewODS == Eng([x \in {"primary"} |-> ODSInstance("primary")], "primary", <<>>)

\* What get_defaults_dict is handed as defaults: None, a dict, 'from_ods', the
\* name of a json file, or another str.
NoDefaults == [kind |-> "none", dict |-> <<>>]

DefaultsDict(d) == [kind |-> "dict", dict |-> d]

FromOds == [kind |-> "from_ods", dict |-> <<>>]

FromJson == [kind |-> "json", dict |-> <<>>]

NoDefaultsCase == [kind |-> "str", dict |-> <<>>]

\* input_sets.items(): the schema fields gen_info has seen and 'invalid'.
InputSetItems(st) ==
    [key \in FieldSet \cup {"invalid"} |->
        IF key = "invalid" THEN st.input_sets_invalid ELSE st.input_sets[key]]

\* The keys of input_sets that hold at least one value, 'invalid' included.
keys_with_a_value(st) ==
    {key \in DOMAIN InputSetItems(st) : Cardinality(InputSetItems(st)[key]) >= 1}

\* The keys 'from_ods' makes defaults of: key != 'invalid' and len(val) == 1.
single_valued_keys(st) ==
    {key \in DOMAIN InputSetItems(st) \ {"invalid"} :
        Cardinality(InputSetItems(st)[key]) = 1}

\* ODS.get_defaults_dict.  None changes nothing; a dict is copied; 'from_ods'
\* takes list(val)[0] of the single-valued input sets of the working instance;
\* a json file goes through read_json_file; another str logs an error.
get_defaults_dict(E, dflt) ==
    LET FromStore(st) ==
            [key \in single_valued_keys(st) |->
                CHOOSE v \in InputSetItems(st)[key] : TRUE]
    IN IF dflt.kind = "none" THEN Ret("", FALSE, E)
       ELSE IF dflt.kind = "dict" THEN Ret("", FALSE, [E EXCEPT !.defaults = dflt.dict])
       ELSE IF dflt.kind = "json" THEN Ret(read_json_file.exc, FALSE, E)
       ELSE IF dflt.kind = "from_ods"
       THEN Ret("", FALSE, [E EXCEPT !.defaults = FromStore(E.ods[E.working_instance])])
       ELSE Ret("", TRUE, E)

\* ODS.read_ods.
read_ods(E, ods_input, name) ==
    LET Named(n) ==
            LET Read(r) == Ret(r.exc, FALSE, SetStore(E, n.name, r.st))
            IN IF n.exc # "" THEN Ret(n.exc, TRUE, E)
               ELSE Read(read(E.ods[n.name], ods_input))
    IN Named(get_instance_name(E, name))

\* ODS.add_new_record(**kwargs).
add_new_record(E, kwargs, name) ==
    LET Named(n) ==
            LET Informed(g) == Ret(g.exc, FALSE, SetStore(E, n.name, g.st))
            IN IF n.exc # "" THEN Ret(n.exc, TRUE, E)
               ELSE Informed(gen_info(new_record(E.ods[n.name], kwargs, E.defaults)))
    IN Named(get_instance_name(E, name))

\* ODS.update_by_continuity: entries is bound to whatever continuity returns,
\* then gen_info.
update_by_continuity(E, offset, adjust, name) ==
    LET Named(n) ==
            LET Checked(st, c) ==
                    LET Informed(g) == Ret(g.exc, c.warn, SetStore(E, n.name, g.st))
                    IN IF c.exc # "" THEN Ret(c.exc, c.warn, E)
                       ELSE Informed(gen_info(
                               IF c.same
                               THEN [st EXCEPT !.entries = <<>>,
                                               !.entries_is_list = FALSE]
                               ELSE [st EXCEPT !.entries = c.out]))
            IN IF n.exc # "" THEN Ret(n.exc, TRUE, E)
               ELSE Checked(E.ods[n.name],
                            continuity(AsInstance(E.ods[n.name]), offset, adjust))
    IN Named(get_instance_name(E, name))

\* The loop of cull_by_time over the entries, from entry i on: kept collects
\* the records that stay.
RECURSIVE CullLoop(_, _, _, _, _)
CullLoop(entries, cull_time, cull_by, i, kept) ==
    IF i > Len(entries) THEN [exc |-> "", kept |-> kept]
    ELSE LET rec == entries[i]
         IN IF std_stop \notin DOMAIN rec THEN [exc |-> "KeyError", kept |-> kept]
            ELSE LET Early(early) ==
                         IF early.exc # "" THEN [exc |-> early.exc, kept |-> kept]
                         ELSE CullLoop(entries, cull_time, cull_by, i + 1,
                                       IF early.b THEN kept ELSE Append(kept, rec))
                     Late(late) ==
                         IF late.exc # "" THEN [exc |-> late.exc, kept |-> kept]
                         ELSE IF late.b
                         THEN CullLoop(entries, cull_time, cull_by, i + 1, kept)
                         ELSE IF cull_by # "inactive"
                         THEN CullLoop(entries, cull_time, cull_by, i + 1, Append(kept, rec))
                         ELSE IF std_start \notin DOMAIN rec
                         THEN [exc |-> "KeyError", kept |-> kept]
                         ELSE Early(PyLess(Tm(cull_time), rec[std_start]))
                 IN Late(PyLess(rec[std_stop], Tm(cull_time)))

\* ODS.cull_by_time.  A cull_by that is neither 'stale' nor 'inactive' logs an
\* error and the method goes on.
cull_by_time(E, cull_time, cull_by, name) ==
    LET bad == cull_by \notin {"stale", "inactive"}
        Named(n) ==
            LET Informed(g) == Ret(g.exc, bad, SetStore(E, n.name, g.st))
                Culled(m, c) ==
                    IF c.exc # "" THEN Ret(c.exc, bad, SetStore(E, n.name, m.st))
                    ELSE Informed(gen_info([m.st EXCEPT !.entries = c.kept]))
                Made(m) ==
                    IF m.exc # "" THEN Ret(m.exc, bad, SetStore(E, n.name, m.st))
                    ELSE Culled(m, CullLoop(m.st.entries, cull_time, cull_by, 1, <<>>))
            IN IF n.exc # "" THEN Ret(n.exc, TRUE, E)
               ELSE Made(inst_make_time(E.ods[n.name]))
    IN Named(get_instance_name(E, name))

\* ODS.cull_by_invalid: gen_info, then the entries listed in valid_records,
\* unless that list is empty.
cull_by_invalid(E, name) ==
    LET Named(n) ==
            LET Again(g2) ==
                    Ret(g2.exc, g2.st.number_of_records = 0, SetStore(E, n.name, g2.st))
                Informed(g) ==
                    IF g.exc # "" THEN Ret(g.exc, FALSE, SetStore(E, n.name, g.st))
                    ELSE IF Len(g.st.valid_records) = 0
                    THEN Ret("", FALSE, SetStore(E, n.name, g.st))
                    ELSE Again(gen_info(
                            [g.st EXCEPT !.entries =
                                [i \in 1..Len(g.st.valid_records) |->
                                    g.st.entries[g.st.valid_records[i]]]]))
            IN IF n.exc # "" THEN Ret(n.exc, TRUE, E)
               ELSE Informed(gen_info(E.ods[n.name]))
    IN Named(get_instance_name(E, name))

\* ODS.cull_by_duplicate: to string form, sort_entries with collapse, and
\* gen_info only when the length changed.
cull_by_duplicate(E, name) ==
    LET Named(n) ==
            LET Informed(g) == Ret(g.exc, FALSE, SetStore(E, n.name, g.st))
                Sorted(c, s) ==
                    IF s.exc # "" THEN Ret(s.exc, FALSE, SetStore(E, n.name, c.st))
                    ELSE IF Len(s.out) = Len(c.st.entries)
                    THEN Ret("", FALSE, SetStore(E, n.name, [c.st EXCEPT !.entries = s.out]))
                    ELSE Informed(gen_info([c.st EXCEPT !.entries = s.out]))
                Converted(c) ==
                    IF c.exc # "" THEN Ret(c.exc, FALSE, SetStore(E, n.name, c.st))
                    ELSE Sorted(c, sort_entries(c.st.entries, sort_order_time, TRUE, FALSE))
            IN IF n.exc # "" THEN Ret(n.exc, TRUE, E)
               ELSE Converted(convert_time_to_str(E.ods[n.name]))
    IN Named(get_instance_name(E, name))

\* The loop of add_from_list / add_from_file: a new_record per entry.
RECURSIVE AppendAll(_, _, _, _)
AppendAll(st, lst, dflt, i) ==
    IF i > Len(lst) THEN st
    ELSE AppendAll(new_record(st, lst[i], dflt), lst, dflt, i + 1)

\* ODS.add_from_list: the loop, cull_by_duplicate when asked, gen_info.
add_from_list(E, lst, name, remove_duplicates) ==
    LET Named(n) ==
            LET Informed(d, g) == Ret(g.exc, FALSE, SetStore(d.eng, n.name, g.st))
                Culled(d) ==
                    IF d.exc # "" THEN d
                    ELSE Informed(d, gen_info(d.eng.ods[n.name]))
                Appended(e1) ==
                    IF remove_duplicates THEN Culled(cull_by_duplicate(e1, n.name))
                    ELSE Culled(Ret("", FALSE, e1))
            IN IF n.exc # "" THEN Ret(n.exc, TRUE, E)
               ELSE Appended(SetStore(E, n.name,
                                      AppendAll(E.ods[n.name], lst, E.defaults, 1)))
    IN Named(get_instance_name(E, name))

\* ODS.merge: add_from_list of the source's own entries list.  When the source
\* is the target and holds a record, the loop appends to the list it iterates
\* over and does not end.
merge(E, from_ods, to_ods, remove_duplicates) ==
    IF from_ods \notin DOMAIN E.ods THEN Ret("KeyError", FALSE, E)
    ELSE IF from_ods = to_ods /\ Len(E.ods[from_ods].entries) > 0
    THEN Ret("NoReturn", FALSE, E)
    ELSE add_from_list(E, E.ods[from_ods].entries, to_ods, remove_duplicates)

\* tools.generate_observation_times(start, obs_len_sec) with the default gap of
\* one second: [start, start+len], then on from start+len+gap.
RECURSIVE generate_observation_times(_, _, _)
generate_observation_times(current, obs_len_sec, i) ==
    IF i > Len(obs_len_sec) THEN <<>>
    ELSE <<(<<current, current + obs_len_sec[i]>>)>>
         \o generate_observation_times(current + obs_len_sec[i] + 1, obs_len_sec, i + 1)

\* The closing loop of update_ods_times: entry i takes times[i] as isoformat
\* strings; an i past the entries is an IndexError.
RECURSIVE SetTimes(_, _, _)
SetTimes(entries, times, i) ==
    IF i > Len(times) THEN [exc |-> "", entries |-> entries]
    ELSE IF i > Len(entries) THEN [exc |-> "IndexError", entries |-> entries]
    ELSE SetTimes([entries EXCEPT ![i] =
                      [k \in DOMAIN @ \cup {std_start, std_stop} |->
                          IF k = std_start THEN TStr(times[i][1], 0)
                          ELSE IF k = std_stop THEN TStr(times[i][2], 0)
                          ELSE @[k]]],
                  times, i + 1)

\* ODS.update_ods_times(times, start, obs_len_sec).  p.times_given: times is a
\* list; p.start_given: start is not None; p.obs is "none", "scalar" or "list".
update_ods_times(E, p, name) ==
    LET Named(n) ==
            LET st == E.ods[n.name]
                lens == IF p.obs = "scalar"
                        THEN [i \in 1..st.number_of_records |-> p.obs_len]
                        ELSE p.obs_list
                Updated(u) ==
                    Ret(u.exc, FALSE, SetStore(E, n.name, [st EXCEPT !.entries = u.entries]))
            IN IF n.exc # "" THEN Ret(n.exc, TRUE, E)
               ELSE IF p.times_given /\ Len(p.times) # st.number_of_records
               THEN Ret("", TRUE, E)
               ELSE IF ~p.times_given /\ (~p.start_given \/ p.obs = "none")
               THEN Ret("", TRUE, E)
               ELSE IF ~p.times_given /\ p.obs = "list"
                       /\ Len(p.obs_list) # st.number_of_records
               THEN Ret("", TRUE, E)
               ELSE Updated(SetTimes(st.entries,
                                     IF p.times_given THEN p.times
                                     ELSE generate_observation_times(p.start, lens, 1),
                                     1))
    IN Named(get_instance_name(E, name))

\* ODS.plot_ods_coverage: coverage is called with the keywords starting and
\* stopping, which it does not take: a TypeError before coverage runs.
plot_ods_coverage(E, name, starting, stopping, time_step_min) ==
    IF get_instance_name(E, name).exc # ""
    THEN Covered("KeyError", FALSE, <<>>, <<>>, <<>>)
    ELSE Covered("TypeError", FALSE, <<>>, <<>>, <<>>)

-----------------------------------------------------------------------------
(* Data files and the online monitor.  A file is [exists, rows]; a row holds, *)
(* per column, the text written there, a text being the StrForm of the value  *)
(* it was written from.                                                       *)

\* tools.write_data_file: the header, then per record str(rec[key]) for every
\* column; a record without a column is a KeyError after the rows before it
\* have been written.
RECURSIVE WriteRows(_, _, _)
WriteRows(entries, i, rows) ==
    IF i > Len(entries) THEN [exc |-> "", file |-> [exists |-> TRUE, rows |-> rows]]
    ELSE IF ~HasTerms(entries[i], ods_fields)
    THEN [exc |-> "KeyError", file |-> [exists |-> TRUE, rows |-> rows]]
    ELSE WriteRows(entries, i + 1,
                   Append(rows, [f \in FieldSet |-> StrForm(entries[i][f])]))

write_data_file(entries) == WriteRows(entries, 1, <<>>)

\* What read_csv makes of a cell: a number from a numeric text, else the text
\* itself.
ParseCell(t) ==
    IF t[1] = 1 THEN Num(t[2])
    ELSE IF t[1] = 2 THEN (IF t[2] = 1 THEN TStr(t[3], 0) ELSE TStr(t[3], t[4] + 1))
    ELSE Str(t[1] - 3)

\* tools.read_data_file: one record per row.
read_data_file(file) ==
    [i \in DOMAIN file.rows |-> [f \in FieldSet |-> ParseCell(file.rows[i][f])]]

\* ODS.add_from_file with its default remove_duplicates=True: a new_record per
\* row, cull_by_duplicate, gen_info; a file that is not there cannot be opened.
add_from_file(E, file, name) ==
    IF get_instance_name(E, name).exc # "" THEN Ret("KeyError", TRUE, E)
    ELSE IF ~file.exists THEN Ret("FileNotFoundError", FALSE, E)
    ELSE add_from_list(E, read_data_file(file), name, TRUE)

\* ODSInstance.export2file: to string form, then the file is written.
export2file(st, file) ==
    LET Written(c, w) == [exc |-> w.exc, st |-> c.st, file |-> w.file]
        Converted(c) ==
            IF c.exc # "" THEN [exc |-> c.exc, st |-> c.st, file |-> file]
            ELSE Written(c, write_data_file(c.st.entries))
    IN Converted(convert_time_to_str(st))

\* ODS.online_ods_monitor, the URL serving web, at the instant now (what
\* cull_by_time's default cull_time='now' reads off the clock).
online_ods_monitor(E, web, file, now) ==
    LET Out(exc, eng, f) == [exc |-> exc, eng |-> eng, file |-> f]
        Exported(e, x) == Out(x.exc, SetStore(e, "from_log", x.st), x.file)
        FromLog(r) ==
            IF r.exc # "" THEN Out(r.exc, r.eng, file)
            ELSE Exported(r.eng, export2file(r.eng.ods["from_log"], file))
        Added(r) ==
            IF r.exc # "" THEN Out(r.exc, r.eng, file)
            ELSE FromLog(merge(r.eng, "from_web", "from_log", TRUE))
        Active(r) ==
            IF r.exc # "" THEN Out(r.exc, r.eng, file)
            ELSE Added(add_from_file(ods_instance(r.eng, "from_log", FALSE).eng,
                                     file, "from_log"))
        FromWeb(r) ==
            IF r.exc # "" THEN Out(r.exc, r.eng, file)
            ELSE Active(cull_by_time(r.eng, now, "inactive", "from_web"))
    IN FromWeb(read_ods(ods_instance(E, "from_web", FALSE).eng, Mapping(web),
                        "from_web"))

-----------------------------------------------------------------------------
(* The engine as a state machine: one action per facade call. *)

Names == {"primary", "B"}

NoCall ==
    [op |-> "init", name |-> NoName, src |-> NoName, rd |-> FALSE,
     adjust |-> "", offset |-> 0, kind |-> "", names |-> <<>>, args |-> <<>>,
     exc |-> "", warn |-> FALSE,
     pre |-> NewODS, cycle |-> 0, log_pre |-> <<>>]

Cur == Eng(ods, working_instance, defaults)

\* The model makes no further call on an instance that is None or whose
\* entries are not a list.
Usable(n) == n \in DOMAIN ods => (ods[n] # None /\ ods[n].entries_is_list)

\* The engine takes the state a call left, and `last` records the call.
Took(r, call) ==
    /\ budget > 0
    /\ ods' = r.eng.ods
    /\ working_instance' = r.eng.working_instance
    /\ defaults' = r.eng.defaults
    /\ last' = [call EXCEPT !.exc = r.exc, !.warn = r.warn, !.pre = Cur]
    /\ budget' = budget - 1
    /\ UNCHANGED <<remote, logfile, arg, res, pc>>

\* Records callers supply: r; r with its start spelled with a blank; s,
\* disjoint from r; o, overlapping r; and one without src_id and with the
\* unknown key foo.
RecR ==
    [site_lat_deg |-> Num(1), src_id |-> Str(1),
     src_start_utc |-> TStr(0, 0), src_end_utc |-> TStr(2, 0)]
RecRb == [RecR EXCEPT !.src_start_utc = TStr(0, 1)]
RecS ==
    [site_lat_deg |-> Num(1), src_id |-> Str(2),
     src_start_utc |-> TStr(3, 0), src_end_utc |-> TStr(5, 0)]
RecO ==
    [site_lat_deg |-> Num(1), src_id |-> Str(2),
     src_start_utc |-> TStr(1, 0), src_end_utc |-> TStr(4, 0)]
RecFoo ==
    [site_lat_deg |-> Num(1), foo |-> Str(1),
     src_start_utc |-> TStr(0, 0), src_end_utc |-> TStr(2, 0)]

InputRecords == {RecR, RecRb, RecS, RecO, RecFoo}

\* s with a stop that is no time.
RecBad == [RecS EXCEPT !.src_end_utc = Str(3)]

\* Payloads read_ods is given: lists of records under the data key, a mapping
\* without the data key, a file name, and something that is neither.
InputLists ==
    {<<RecR>>, <<RecR, RecR>>, <<RecR, RecS>>, <<RecFoo>>, <<RecFoo, RecS>>}

InputPayloads ==
    {Mapping(data) : data \in InputLists \cup {<<RecR, RecBad>>}}
        \cup {NoDataKey, FileName, NoInput}

Room(n, k) == n \in DOMAIN ods => Len(ods[n].entries) + k <= MaxEntries

OdsInstance(name, set_as_working) ==
    /\ name # NoName
    /\ Took(ods_instance(Cur, name, set_as_working),
            [NoCall EXCEPT !.op = "ods_instance", !.name = name, !.rd = set_as_working])

GetDefaultsDict(dflt) ==
    /\ Usable(working_instance)
    /\ Took(get_defaults_dict(Cur, dflt),
            [NoCall EXCEPT !.op = "get_defaults_dict", !.name = working_instance,
                           !.kind = dflt.kind])

ResetOdsInstances(instances) ==
    /\ instances.all \/ instances.names # <<>>
    /\ Took(reset_ods_instances(Cur, instances),
            [NoCall EXCEPT !.op = "reset_ods_instances",
                           !.kind = IF instances.all THEN "all" ELSE "names",
                           !.names = instances.names])

ReadOds(ods_input, name) ==
    /\ Usable(name) /\ Room(name, Len(ods_input.data))
    /\ Took(read_ods(Cur, ods_input, name),
            [NoCall EXCEPT !.op = "read_ods", !.name = name, !.kind = ods_input.kind])

AddNewRecord(kwargs, name) ==
    /\ Usable(name) /\ Room(name, 1)
    /\ Took(add_new_record(Cur, kwargs, name),
            [NoCall EXCEPT !.op = "add_new_record", !.name = name])

CullByTime(cull_time, cull_by, name) ==
    /\ Usable(name)
    /\ Took(cull_by_time(Cur, cull_time, cull_by, name),
            [NoCall EXCEPT !.op = "cull_by_time", !.name = name,
                           !.adjust = cull_by, !.offset = cull_time])

CullByInvalid(name) ==
    /\ Usable(name)
    /\ Took(cull_by_invalid(Cur, name),
            [NoCall EXCEPT !.op = "cull_by_invalid", !.name = name])

CullByDuplicate(name) ==
    /\ Usable(name)
    /\ Took(cull_by_duplicate(Cur, name),
            [NoCall EXCEPT !.op = "cull_by_duplicate", !.name = name])

Merge(from_ods, to_ods, remove_duplicates) ==
    /\ Usable(from_ods) /\ Usable(to_ods)
    /\ from_ods \in DOMAIN ods => Room(to_ods, Len(ods[from_ods].entries))
    /\ Took(merge(Cur, from_ods, to_ods, remove_duplicates),
            [NoCall EXCEPT !.op = "merge", !.name = to_ods, !.src = from_ods,
                           !.rd = remove_duplicates])

UpdateByContinuity(offset, adjust, name) ==
    /\ Usable(name)
    /\ Took(update_by_continuity(Cur, offset, adjust, name),
            [NoCall EXCEPT !.op = "update_by_continuity", !.name = name,
                           !.adjust = adjust, !.offset = offset])

MakeTime(name) ==
    /\ name \in DOMAIN ods /\ Usable(name)
    /\ LET Made(r) == Ret(r.exc, FALSE, SetStore(Cur, name, r.st))
       IN Took(Made(inst_make_time(ods[name])),
               [NoCall EXCEPT !.op = "make_time", !.name = name])

ConvertTimeToStr(name) ==
    /\ name \in DOMAIN ods /\ Usable(name)
    /\ LET Converted(r) == Ret(r.exc, FALSE, SetStore(Cur, name, r.st))
       IN Took(Converted(convert_time_to_str(ods[name])),
               [NoCall EXCEPT !.op = "convert_time_to_str", !.name = name])

\* Arguments update_ods_times is given: a times list of one or two windows, a
\* start with a scalar length or with a list of one length, or nothing.
TimesArgs ==
    {[times_given |-> TRUE, times |-> t, start_given |-> FALSE, start |-> 0,
      obs |-> "none", obs_len |-> 0, obs_list |-> <<>>] :
        t \in {<<(<<1, 3>>)>>, <<(<<1, 3>>), (<<4, 5>>)>>}}
    \cup
    {[times_given |-> FALSE, times |-> <<>>, start_given |-> g, start |-> 1,
      obs |-> o, obs_len |-> 1, obs_list |-> IF o = "list" THEN <<1>> ELSE <<>>] :
        g \in BOOLEAN, o \in {"none", "scalar", "list"}}

UpdateOdsTimes(p, name) ==
    /\ Usable(name)
    /\ Took(update_ods_times(Cur, p, name),
            [NoCall EXCEPT !.op = "update_ods_times", !.name = name, !.args = p])

Init ==
    /\ ods = NewODS.ods
    /\ working_instance = NewODS.working_instance
    /\ defaults = NewODS.defaults
    /\ last = NoCall
    /\ budget = MaxOps
    /\ remote = <<>>
    /\ logfile = [exists |-> FALSE, rows |-> <<>>]
    /\ arg = <<>>
    /\ res = <<>>
    /\ pc = "idle"

Next ==
    \/ \E name \in Names : OdsInstance(name, FALSE)
    \/ \E ods_input \in InputPayloads, name \in Names : ReadOds(ods_input, name)
    \/ \E kwargs \in InputRecords, name \in Names : AddNewRecord(kwargs, name)
    \/ \E t \in {1, 3}, by \in {"stale", "inactive", "active"}, name \in Names :
          CullByTime(t, by, name)
    \/ \E name \in Names : CullByInvalid(name)
    \/ \E name \in Names : CullByDuplicate(name)
    \/ \E f \in Names, t \in Names, rd \in BOOLEAN : Merge(f, t, rd)
    \/ \E off \in {1}, adj \in {"start", "stop", "both"}, name \in Names :
          UpdateByContinuity(off, adj, name)
    \/ \E p \in TimesArgs, name \in Names : UpdateOdsTimes(p, name)
    \/ \E name \in Names : MakeTime(name)
    \/ \E name \in Names : ConvertTimeToStr(name)

Spec == Init /\ [][Next]_vars

-----------------------------------------------------------------------------
(* Properties of the engine *)

\* A record with every time it holds, string or Time, written as a Time: two
\* records that differ only in how a time is represented have the same Canon.
Canon(rec) ==
    [k \in DOMAIN rec |-> IF IsTimeLike(rec[k]) THEN Tm(rec[k].a) ELSE rec[k]]

CanonSeq(lst) == [i \in DOMAIN lst |-> Canon(lst[i])]

\* The all-field string form of a record, times written canonically.
CanonForm(rec) == [k \in DOMAIN rec |-> StrForm(Canon(rec)[k])]

PassesValidation(rec) == valid(rec).exc = "" /\ valid(rec).is_valid

\* The store the last call worked on, before and after it.
LastOnStore == last.name \in DOMAIN last.pre.ods /\ last.name \in DOMAIN ods

StoreBefore == last.pre.ods[last.name]

StoreAfter == ods[last.name]

\* C2: after cull_by_invalid the store holds exactly the records that pass
\* validation, in their original relative order, also when no record is valid.
C2_CullByInvalidKeepsValidOnly ==
    (last.op = "cull_by_invalid" /\ LastOnStore) =>
        /\ last.exc = ""
        /\ StoreAfter.entries_is_list
        /\ CanonSeq(StoreAfter.entries)
              = CanonSeq(SelectSeq(StoreBefore.entries, PassesValidation))

\* The representation a value is in, in the words of time_format.
Representation(v) ==
    IF v.k = "time" THEN "time" ELSE IF IsPyStr(v) THEN "string" ELSE "other"

\* C3: time-representation consistency.  After every call that returns, the
\* time fields of every record of every store are strings when the store's
\* time_format is 'string' and Times when it is 'time'.
C3_TimeFormatMatchesRecords ==
    last.exc = "" =>
        \A n \in DOMAIN ods :
            ods[n].entries_is_list =>
                \A i \in DOMAIN ods[n].entries :
                    \A k \in TimeFieldSet \cap DOMAIN ods[n].entries[i] :
                        Representation(ods[n].entries[i][k]) = ods[n].time_format

\* C5: dedup idempotence.  On the store cull_by_duplicate has just left, a
\* second cull_by_duplicate returns and leaves the same records in the same
\* order.
C5_CullByDuplicateIdempotent ==
    (last.op = "cull_by_duplicate" /\ last.exc = "" /\ LastOnStore) =>
        /\ cull_by_duplicate(Cur, last.name).exc = ""
        /\ CanonSeq(cull_by_duplicate(Cur, last.name).eng.ods[last.name].entries)
              = CanonSeq(StoreAfter.entries)

\* C10: update_by_continuity with an adjust that is neither 'start' nor 'stop'
\* logs a warning, returns, and leaves the store's records as they were.
C10_InvalidAdjustIsNoOp ==
    (last.op = "update_by_continuity" /\ last.adjust \notin {"start", "stop"}
        /\ LastOnStore) =>
        /\ last.warn
        /\ last.exc = ""
        /\ StoreAfter.entries_is_list
        /\ CanonSeq(StoreAfter.entries) = CanonSeq(StoreBefore.entries)

\* C11: read is all-or-nothing.  When read_ods ends in an exception, or is
\* handed something that is neither a mapping nor a file name, the target
\* store (records, input tag, time_format and aggregates) is what it was before
\* the call.
C11_ReadAllOrNothing ==
    (last.op = "read_ods" /\ LastOnStore /\ (last.exc # "" \/ last.kind = "other")) =>
        StoreAfter = StoreBefore

\* A value with a time, string or Time, written as a Time.
CanonVal(v) == IF IsTimeLike(v) THEN Tm(v.a) ELSE v

\* The values gen_info has collected for field f, and the values f takes in
\* the records the store holds.
Observed(st, f) == {CanonVal(v) : v \in st.input_sets[f]}

Held(st, f) ==
    {CanonVal(st.entries[i][f]) : i \in {j \in DOMAIN st.entries : f \in DOMAIN st.entries[j]}}

\* The last call returned and ended in gen_info.
RanGenInfo ==
    /\ last.exc = ""
    /\ \/ last.op \in {"add_new_record", "cull_by_time", "cull_by_invalid", "merge"}
       \/ last.op = "read_ods" /\ last.kind = "dict"

\* C12: aggregates are rebuilt from the current records.  After every gen_info
\* the observed-value set of every schema field is the set of values the field
\* takes in the records now in the store.
C12_InputSetsFromCurrentRecords ==
    (RanGenInfo /\ LastOnStore) =>
        \A f \in FieldSet : Observed(StoreAfter, f) = Held(StoreAfter, f)

\* number_of_records is the length of the record sequence, and valid_records
\* and the keys of invalid_records split the positions by what validation says
\* of the record now at each position.
Consistent(st) ==
    LET validset == {st.valid_records[i] : i \in DOMAIN st.valid_records}
    IN /\ st.entries_is_list
       /\ st.number_of_records = Len(st.entries)
       /\ validset \cap DOMAIN st.invalid_records = {}
       /\ validset \cup DOMAIN st.invalid_records = DOMAIN st.entries
       /\ \A i \in DOMAIN st.entries : (i \in validset) = PassesValidation(st.entries[i])

MutationOps ==
    {"read_ods", "add_new_record", "merge", "update_ods_times", "update_by_continuity",
     "cull_by_time", "cull_by_invalid", "cull_by_duplicate"}

\* C13: aggregate consistency.  Every facade mutation that returns, made on a
\* store whose aggregates are consistent, leaves them consistent.
C13_AggregatesConsistent ==
    (last.op \in MutationOps /\ last.exc = "" /\ LastOnStore /\ Consistent(StoreBefore)) =>
        Consistent(StoreAfter)

\* The parameters of the last update_ods_times are insufficient or
\* inconsistent for the store it was made on: a times list, or a list of
\* observation lengths, whose length is not the number of records; or no
\* times and no start or no observation length.
Insufficient ==
    \/ last.args.times_given /\ Len(last.args.times) # Len(StoreBefore.entries)
    \/ ~last.args.times_given /\ (~last.args.start_given \/ last.args.obs = "none")
    \/ /\ ~last.args.times_given /\ last.args.start_given /\ last.args.obs = "list"
       /\ Len(last.args.obs_list) # Len(StoreBefore.entries)

\* C24: update_ods_times with insufficient or inconsistent parameters logs a
\* warning, returns, and leaves every record of the store as it was.
C24_InsufficientTimesIsNoOp ==
    (last.op = "update_ods_times" /\ LastOnStore /\ Insufficient) =>
        /\ last.warn
        /\ last.exc = ""
        /\ StoreAfter.entries = StoreBefore.entries

\* C25: cull_by_time with a cull_by that is neither 'stale' nor 'inactive'
\* reports the invalid parameter and drops no record: the store holds the
\* records it held, in the same order.
C25_InvalidCullByIsNoOp ==
    (last.op = "cull_by_time" /\ last.adjust \notin {"stale", "inactive"}
        /\ LastOnStore) =>
        /\ last.warn
        /\ CanonSeq(StoreAfter.entries) = CanonSeq(StoreBefore.entries)

\* C28: merge(from, to) between two existing instances comes to an end,
\* also when from and to are the same instance; and when they are not, the
\* source holds the same records afterwards as before.
C28_MergeTerminates ==
    (last.op = "merge" /\ LastOnStore /\ last.src \in DOMAIN last.pre.ods) =>
        /\ last.exc # "NoReturn"
        /\ last.src # last.name =>
              ods[last.src].entries = last.pre.ods[last.src].entries

-----------------------------------------------------------------------------
(* Two stores built by read_ods and add_new_record, then merged. *)

InitMerge ==
    /\ ods = NewODS.ods
    /\ working_instance = NewODS.working_instance
    /\ defaults = NewODS.defaults
    /\ last = NoCall
    /\ budget = MaxMergeOps
    /\ remote = <<>>
    /\ logfile = [exists |-> FALSE, rows |-> <<>>]
    /\ arg = <<>>
    /\ res = <<>>
    /\ pc = "idle"

NextMerge ==
    \/ \E name \in {"B"} : OdsInstance(name, FALSE)
    \/ \E data \in {<<RecR>>, <<RecR, RecS>>}, name \in Names :
          ReadOds(Mapping(data), name)
    \/ \E kwargs \in {RecR, RecS}, name \in Names : AddNewRecord(kwargs, name)
    \/ \E f \in Names : \E t \in Names \ {f}, rd \in BOOLEAN : Merge(f, t, rd)

SpecMerge == InitMerge /\ [][NextMerge]_vars

\* The records merge hands to the target: one per record of the source, built
\* by new_record.
Merged == [i \in DOMAIN last.pre.ods[last.src].entries |->
              BuildRecord(last.pre.ods[last.src].entries[i], last.pre.defaults)]

\* C6: after merge(from, to, remove_duplicates) has returned, the target holds
\* its previous records followed by one record per source record when
\* remove_duplicates is false, and exactly one record per distinct all-field
\* string form among the previous target records and the source records when
\* it is true.
C6_MergeResult ==
    (last.op = "merge" /\ last.exc = "" /\ LastOnStore
        /\ last.src \in DOMAIN last.pre.ods /\ last.src # last.name) =>
        /\ StoreAfter.entries_is_list
        /\ IF ~last.rd
           THEN CanonSeq(StoreAfter.entries) = CanonSeq(StoreBefore.entries \o Merged)
           ELSE /\ {CanonForm(StoreAfter.entries[i]) : i \in DOMAIN StoreAfter.entries}
                     = {CanonForm((StoreBefore.entries \o Merged)[i]) :
                           i \in DOMAIN (StoreBefore.entries \o Merged)}
                /\ \A i, j \in DOMAIN StoreAfter.entries :
                       CanonForm(StoreAfter.entries[i]) = CanonForm(StoreAfter.entries[j])
                           => i = j

-----------------------------------------------------------------------------
(* Standard.valid as a function: one call on one record. *)

\* The engine untouched by a function-level specification.
EngineIdle ==
    /\ ods = NewODS.ods
    /\ working_instance = NewODS.working_instance
    /\ defaults = NewODS.defaults
    /\ last = NoCall
    /\ budget = MaxOps
    /\ remote = <<>>
    /\ logfile = [exists |-> FALSE, rows |-> <<>>]

\* What a caller may put under each key: nothing, None, a well-typed value, the
\* string "abc", and for the start a Time.
FieldValues ==
    [key \in KeySet |->
        CASE key = "site_lat_deg"  -> {None, Num(1), Str(3)}
          [] key = "src_id"        -> {None, Str(1)}
          [] key = "src_start_utc" -> {None, TStr(0, 0), Str(3), Tm(0)}
          [] key = "src_end_utc"   -> {None, TStr(2, 0), Str(3)}
          [] OTHER                 -> {Str(1)}]

ValidInputs ==
    UNION {{r \in [D -> UNION {FieldValues[k] : k \in KeySet}] :
                \A k \in D : r[k] \in FieldValues[k]} : D \in SUBSET KeySet}

InitValid ==
    /\ EngineIdle
    /\ arg \in ValidInputs
    /\ res = <<>>
    /\ pc = "call"

CallValid ==
    /\ pc = "call"
    /\ res' = valid(arg)
    /\ pc' = "done"
    /\ UNCHANGED <<ods, working_instance, defaults, last, budget, remote, logfile, arg>>

SpecValid == InitValid /\ [][CallValid]_vars

\* The defects a record carries: unknown keys, schema fields holding None,
\* schema fields missing, values the field's type does not take, and time
\* fields holding something that is no time.
Defects(rec) ==
    Cardinality({k \in DOMAIN rec : k \notin FieldSet})
    + Cardinality({k \in DOMAIN rec \cap FieldSet : rec[k] = None})
    + Cardinality(FieldSet \ DOMAIN rec)
    + Cardinality({k \in DOMAIN rec \cap FieldSet :
                      rec[k] # None /\ Coerce(k, rec[k]) # ""})
    + Cardinality({k \in DOMAIN rec \cap TimeFieldSet :
                      rec[k] # None /\ ~IsTimeLike(rec[k])})

\* C1: validation completeness.  For a record with k defects valid returns
\* without an exception, is_valid is false exactly when k > 0, and the list of
\* reasons has exactly k entries.
C1_ValidationCompleteness ==
    pc = "done" =>
        /\ res.exc = ""
        /\ Len(res.msg) = Defects(arg)
        /\ res.is_valid = (Defects(arg) = 0)

-----------------------------------------------------------------------------
(* sort_entries as the dedup primitive: one call, as cull_by_duplicate makes *)
(* it, on one list of complete records.                                      *)

\* r with its times held as Time objects.
RecRt == [RecR EXCEPT !.src_start_utc = Tm(0), !.src_end_utc = Tm(2)]

SortRecords == {RecR, RecRt, RecRb, RecS, RecO}

SortInputs == UNION {[1..n -> SortRecords] : n \in 0..MaxEntries}

InitSort ==
    /\ EngineIdle
    /\ arg \in SortInputs
    /\ res = <<>>
    /\ pc = "call"

CallSort ==
    /\ pc = "call"
    /\ res' = sort_entries(arg, sort_order_time, TRUE, FALSE)
    /\ pc' = "done"
    /\ UNCHANGED <<ods, working_instance, defaults, last, budget, remote, logfile, arg>>

SpecSort == InitSort /\ [][CallSort]_vars

\* The string form of every schema field of a record.
FieldForms(rec) == [f \in FieldSet |-> StrForm(rec[f])]

\* C4: dedup soundness.  Whatever the order of the input, the output of
\* sort_entries with the schema sort key and collapse holds exactly one record
\* of every class of records whose string forms agree on every schema field.
C4_DedupSoundness ==
    pc = "done" =>
        /\ res.exc = ""
        /\ \A i \in DOMAIN arg :
              Cardinality({n \in DOMAIN res.out :
                              FieldForms(res.out[n]) = FieldForms(arg[i])}) = 1

\* The input held two records of one class and the output is shorter.
C4_Witness ==
    /\ pc = "done"
    /\ res.exc = ""
    /\ \E i, j \in DOMAIN arg : i # j /\ FieldForms(arg[i]) = FieldForms(arg[j])
    /\ Len(res.out) < Len(arg)

-----------------------------------------------------------------------------
(* ODSCheck.continuity as a function: one call, given a store (as           *)
(* update_by_continuity gives it) or a list of records (as its docstring     *)
(* asks).                                                                    *)

\* r observed from second a to second b.
Win(a, b) == [RecR EXCEPT !.src_start_utc = TStr(a, 0), !.src_end_utc = TStr(b, 0)]

ContRecords == {Win(0, 4), Win(2, 5), Win(0, 1), Win(1, 5), Win(3, 5)}

ContLists == UNION {[1..n -> ContRecords] : n \in 0..MaxEntries}

ContInputs ==
    {[ods |-> o, offset |-> off, adjust |-> adj] :
        o \in {AsList(lst) : lst \in ContLists}
              \cup {AsInstance([ODSInstance("primary") EXCEPT !.entries = lst]) :
                        lst \in ContLists},
        off \in {0, 1},
        adj \in {"start", "stop", "both"}}

InitCont ==
    /\ EngineIdle
    /\ arg \in ContInputs
    /\ res = <<>>
    /\ pc = "call"

CallContinuity ==
    /\ pc = "call"
    /\ res' = continuity(arg.ods, arg.offset, arg.adjust)
    /\ pc' = "done"
    /\ UNCHANGED <<ods, working_instance, defaults, last, budget, remote, logfile, arg>>

SpecCont == InitCont /\ [][CallContinuity]_vars

\* C8: continuity monotonicity.  continuity with adjust='stop' returns, and
\* unless it warned of a remaining overlap every record of its output stops at
\* least offset before the next one starts.
C8_ContinuityMonotonic ==
    (pc = "done" /\ arg.adjust = "stop") =>
        /\ res.exc = ""
        /\ \/ res.warn
           \/ \A i \in 1..(Len(res.out) - 1) :
                 res.out[i][std_stop].a + arg.offset <= res.out[i + 1][std_start].a

\* The input of a continuity call in (start, stop) order.
InOrder == sort_entries(arg.ods.items, <<std_start, std_stop>>, FALSE, FALSE).out

\* What the adjustment step makes of record i of the ordered input: with
\* 'stop' its stop moves to offset before the next start when that start
\* precedes it; with 'start' its start moves to offset after the previous
\* stop when it precedes that stop; nothing else changes.
Adjusted(i) ==
    [InOrder[i] EXCEPT
        ![std_stop] =
            IF arg.adjust = "stop" /\ i < Len(InOrder)
               /\ InOrder[i + 1][std_start].a < InOrder[i][std_stop].a
            THEN Tm(InOrder[i + 1][std_start].a - arg.offset)
            ELSE Tm(@.a),
        ![std_start] =
            IF arg.adjust = "start" /\ i > 1
               /\ InOrder[i][std_start].a < InOrder[i - 1][std_stop].a
            THEN Tm(InOrder[i - 1][std_stop].a + arg.offset)
            ELSE Tm(@.a)]

\* C9: the adjustment step.  continuity with adjust 'start' or 'stop' returns
\* the ordered input with every overlapping pair adjusted on the named side and
\* every other window unchanged; for the windows 0-4 and 2-5, offset 1 and
\* 'stop' that is 0-1 and 2-5, with no warning.
C9_ContinuityAdjustmentStep ==
    (pc = "done" /\ arg.adjust \in {"start", "stop"}) =>
        /\ res.exc = ""
        /\ CanonSeq(res.out) = [i \in DOMAIN InOrder |-> Adjusted(i)]
        /\ (arg.ods.items = <<Win(0, 4), Win(2, 5)>> /\ arg.offset = 1
                /\ arg.adjust = "stop") =>
               (CanonSeq(res.out) = CanonSeq(<<Win(0, 1), Win(2, 5)>>) /\ ~res.warn)

\* C29: continuity keeps every record temporally well-formed.  The records
\* handed in all start no later than they stop; with adjust 'start' or 'stop'
\* and an offset of 0 or more, continuity returns as many records as it was
\* given, and each of them starts no later than it stops.
C29_ContinuityKeepsWellFormed ==
    (pc = "done" /\ arg.adjust \in {"start", "stop"}) =>
        /\ res.exc = ""
        /\ Len(res.out) = Len(arg.ods.items)
        /\ \A i \in DOMAIN res.out :
              res.out[i][std_start].a <= res.out[i][std_stop].a

-----------------------------------------------------------------------------
(* A store filled by read_ods and add_new_record with records that all carry *)
(* parseable times, and culled by time.                                      *)

CullRecords == {Win(0, 2), Win(2, 4), Win(3, 5)}

CullLists == UNION {[1..n -> CullRecords] : n \in 1..2}

InitCull ==
    /\ ods = NewODS.ods
    /\ working_instance = NewODS.working_instance
    /\ defaults = NewODS.defaults
    /\ last = NoCall
    /\ budget = MaxCullOps
    /\ remote = <<>>
    /\ logfile = [exists |-> FALSE, rows |-> <<>>]
    /\ arg = <<>>
    /\ res = <<>>
    /\ pc = "idle"

NextCull ==
    \/ \E data \in CullLists : ReadOds(Mapping(data), "primary")
    \/ \E kwargs \in CullRecords : AddNewRecord(kwargs, "primary")
    \/ \E t \in 0..MaxT, by \in {"stale", "inactive"} : CullByTime(t, by, "primary")

SpecCull == InitCull /\ [][NextCull]_vars

\* The record stops at or after the cull time and, for 'inactive', starts at
\* or before it.
Retained(rec) ==
    /\ rec[std_stop].a >= last.offset
    /\ last.adjust = "inactive" => rec[std_start].a <= last.offset

\* C14: cull_by_time returns and leaves exactly the records with
\* stop >= cull_time ('stale'), or with start <= cull_time <= stop
\* ('inactive'), in their original relative order; a record that stops or
\* starts at the cull time stays.
C14_CullByTimeRetains ==
    (last.op = "cull_by_time" /\ LastOnStore) =>
        /\ last.exc = ""
        /\ CanonSeq(StoreAfter.entries) = CanonSeq(SelectSeq(StoreBefore.entries, Retained))

\* An 'inactive' cull that dropped a record and kept one that stops at the
\* cull time and one that starts at it.
C14_Witness ==
    /\ last.op = "cull_by_time" /\ last.adjust = "inactive" /\ last.exc = ""
    /\ LastOnStore
    /\ Len(StoreAfter.entries) < Len(StoreBefore.entries)
    /\ \E i, j \in DOMAIN StoreAfter.entries :
          /\ StoreAfter.entries[i][std_stop].a = last.offset
          /\ StoreAfter.entries[j][std_start].a = last.offset

-----------------------------------------------------------------------------
(* sort_entries without collapse: one call on one list of complete records   *)
(* and one list of sort terms.                                               *)

SortTerms == {<<std_start, std_stop>>, sort_order_time, <<"src_id">>, <<>>}

OrderInputs == {[lst |-> l, terms |-> t] : l \in SortInputs, t \in SortTerms}

InitOrder ==
    /\ EngineIdle
    /\ arg \in OrderInputs
    /\ res = <<>>
    /\ pc = "call"

CallSortEntries ==
    /\ pc = "call"
    /\ res' = sort_entries(arg.lst, arg.terms, FALSE, FALSE)
    /\ pc' = "done"
    /\ UNCHANGED <<ods, working_instance, defaults, last, budget, remote, logfile, arg>>

SpecOrder == InitOrder /\ [][CallSortEntries]_vars

\* The string forms of the sort terms of input record i.
TermsOf(i) == TermForms(arg.lst[i], arg.terms, 1)

\* The ways to rearrange the positions of the input.
Rearrangements ==
    {p \in [DOMAIN arg.lst -> DOMAIN arg.lst] :
        \A n, m \in DOMAIN arg.lst : p[n] = p[m] => n = m}

\* C19: sort_entries without collapse returns a rearrangement of the input
\* (same length, same records) in non-decreasing order of the tuple of string
\* forms of the sort terms, records with equal tuples in their input order.
C19_SortIsStablePermutation ==
    pc = "done" =>
        /\ res.exc = ""
        /\ \E p \in Rearrangements :
              /\ res.out = [n \in DOMAIN arg.lst |-> arg.lst[p[n]]]
              /\ \A n, m \in DOMAIN arg.lst :
                    n < m =>
                        \/ LexLess(TermsOf(p[n]), TermsOf(p[m]))
                        \/ TermsOf(p[n]) = TermsOf(p[m]) /\ p[n] < p[m]

\* Three records, two of them different records with the same sort terms, and
\* an output in another order than the input.
C19_Witness ==
    /\ pc = "done"
    /\ res.exc = ""
    /\ Len(arg.lst) = 3
    /\ \E i, j \in DOMAIN arg.lst :
          i < j /\ arg.lst[i] # arg.lst[j] /\ TermsOf(i) = TermsOf(j)
    /\ res.out # arg.lst

-----------------------------------------------------------------------------
(* ODSCheck.is_duplicate as a function: one call on a store and a candidate. *)

\* r with src_id None, and r with the string 'None' as its src_id.
RecNone == [RecR EXCEPT !.src_id = None]

RecNoneStr == [RecR EXCEPT !.src_id = Str(0)]

\* Complete records, and RecFoo, which has no src_id.
DupRecords == {RecR, RecRt, RecRb, RecS, RecFoo, RecNone, RecNoneStr}

DupInputs ==
    {[entries |-> l, record |-> r] :
        l \in UNION {[1..n -> DupRecords] : n \in 0..MaxEntries}, r \in DupRecords}

InitDup ==
    /\ EngineIdle
    /\ arg \in DupInputs
    /\ res = <<>>
    /\ pc = "call"

CallIsDuplicate ==
    /\ pc = "call"
    /\ res' = is_duplicate([ODSInstance("primary") EXCEPT !.entries = arg.entries],
                           arg.record)
    /\ pc' = "done"
    /\ UNCHANGED <<ods, working_instance, defaults, last, budget, remote, logfile, arg>>

SpecDup == InitDup /\ [][CallIsDuplicate]_vars

\* Both records have every schema field and agree on the string form of each.
Agree(rec1, rec2) ==
    /\ FieldSet \subseteq DOMAIN rec1
    /\ FieldSet \subseteq DOMAIN rec2
    /\ \A f \in FieldSet : StrForm(rec1[f]) = StrForm(rec2[f])

\* C18: duplicate detection.  is_duplicate is true exactly when some record
\* of the store agrees with the candidate on the string form of every schema
\* field; a candidate that lacks a field is never a duplicate, and a stored
\* record that lacks a field makes no candidate a duplicate.
C18_DuplicateDetection ==
    pc = "done" =>
        /\ res = (\E i \in DOMAIN arg.entries : Agree(arg.entries[i], arg.record))
        /\ ~(FieldSet \subseteq DOMAIN arg.record) => ~res
        /\ (\A i \in DOMAIN arg.entries : ~(FieldSet \subseteq DOMAIN arg.entries[i]))
              => ~res

\* The candidate lacks a field and the store holds the very same record: not
\* a duplicate.
C18_Witness ==
    /\ pc = "done"
    /\ ~(FieldSet \subseteq DOMAIN arg.record)
    /\ \E i \in DOMAIN arg.entries : arg.entries[i] = arg.record
    /\ res = FALSE

-----------------------------------------------------------------------------
(* ODSInstance.new_record as a function: one call on a store, with a mapping *)
(* of supplied values and a mapping of defaults.                             *)

\* What the caller may supply under each key, and what the defaults may hold.
SuppliedValues ==
    [key \in KeySet |->
        CASE key = "site_lat_deg"  -> {None, Num(1)}
          [] key = "src_id"        -> {Str(1)}
          [] key = "src_start_utc" -> {TStr(0, 0)}
          [] key = "src_end_utc"   -> {TStr(2, 0)}
          [] OTHER                 -> {Str(1)}]

DefaultValues ==
    [key \in KeySet |->
        CASE key = "site_lat_deg"  -> {Num(2)}
          [] key = "src_id"        -> {None, Str(2)}
          [] key = "src_start_utc" -> {TStr(3, 0)}
          [] key = "src_end_utc"   -> {TStr(5, 0)}
          [] OTHER                 -> {Str(2)}]

\* The mappings whose keys are some of the model's keys and whose values are
\* drawn from vals.
Mappings(vals) ==
    UNION {{r \in [D -> UNION {vals[k] : k \in KeySet}] :
                \A k \in D : r[k] \in vals[k]} : D \in SUBSET KeySet}

RecordInputs ==
    {[entry |-> e, defaults |-> d, entries |-> l] :
        e \in Mappings(SuppliedValues), d \in Mappings(DefaultValues),
        l \in {<<>>, <<RecR>>}}

InitRecord ==
    /\ EngineIdle
    /\ arg \in RecordInputs
    /\ res = <<>>
    /\ pc = "call"

CallNewRecord ==
    /\ pc = "call"
    /\ res' = new_record([ODSInstance("primary") EXCEPT !.entries = arg.entries],
                         arg.entry, arg.defaults)
    /\ pc' = "done"
    /\ UNCHANGED <<ods, working_instance, defaults, last, budget, remote, logfile, arg>>

SpecRecord == InitRecord /\ [][CallNewRecord]_vars

\* The record new_record has appended.
Built == res.entries[Len(res.entries)]

\* C17: record construction with defaulting.  The record new_record appends
\* has exactly the schema's fields as keys; each field holds the supplied
\* value when one is supplied, else the default when there is one, else None;
\* the records already in the store stay.
C17_NewRecordDefaulting ==
    pc = "done" =>
        /\ Len(res.entries) = Len(arg.entries) + 1
        /\ SubSeq(res.entries, 1, Len(arg.entries)) = arg.entries
        /\ DOMAIN Built = FieldSet
        /\ \A f \in FieldSet :
              Built[f] = IF f \in DOMAIN arg.entry THEN arg.entry[f]
                         ELSE IF f \in DOMAIN arg.defaults THEN arg.defaults[f]
                         ELSE None

\* A call in which a field is supplied and has a different default, a field
\* is supplied as None over a default, a field has a default only, a field
\* has neither, and a key that is no field is supplied.
C17_Witness ==
    /\ pc = "done"
    /\ "src_id" \in DOMAIN arg.entry \cap DOMAIN arg.defaults
    /\ Built["src_id"] = Str(1) /\ arg.defaults["src_id"] = Str(2)
    /\ "site_lat_deg" \in DOMAIN arg.entry \cap DOMAIN arg.defaults
    /\ Built["site_lat_deg"] = None
    /\ "src_start_utc" \in DOMAIN arg.defaults \ DOMAIN arg.entry
    /\ Built["src_start_utc"] = TStr(3, 0)
    /\ "src_end_utc" \notin DOMAIN arg.entry \cup DOMAIN arg.defaults
    /\ Built["src_end_utc"] = None
    /\ "foo" \in DOMAIN arg.entry

-----------------------------------------------------------------------------
(* Stores filled, and defaults set and derived from the working instance. *)

DefaultsArgs ==
    {NoDefaults, FromOds, FromJson, NoDefaultsCase,
     DefaultsDict([src_start_utc |-> TStr(3, 0)]),
     DefaultsDict([src_id |-> Str(2), foo |-> Str(1)])}

InitDefaults ==
    /\ ods = NewODS.ods
    /\ working_instance = NewODS.working_instance
    /\ defaults = NewODS.defaults
    /\ last = NoCall
    /\ budget = MaxDefaultsOps
    /\ remote = <<>>
    /\ logfile = [exists |-> FALSE, rows |-> <<>>]
    /\ arg = <<>>
    /\ res = <<>>
    /\ pc = "idle"

NextDefaults ==
    \/ \E name \in {"B"} : OdsInstance(name, TRUE)
    \/ \E data \in {<<RecR>>, <<RecFoo, RecS>>}, name \in Names :
          ReadOds(Mapping(data), name)
    \/ \E kwargs \in {RecR, RecS, RecFoo}, name \in Names : AddNewRecord(kwargs, name)
    \/ \E t \in {3}, name \in Names : CullByTime(t, "stale", name)
    \/ \E dflt \in DefaultsArgs : GetDefaultsDict(dflt)

SpecDefaults == InitDefaults /\ [][NextDefaults]_vars

\* The working instance.
Working == ods[working_instance]

\* C20: get_defaults_dict('from_ods') returns, and afterwards the defaults
\* hold field f with value v exactly when the working instance's input set
\* for f is {v}: fields with no or several observed values, the 'invalid'
\* bucket and the defaults set before have no entry.
C20_DefaultsFromOds ==
    (last.op = "get_defaults_dict" /\ last.kind = "from_ods") =>
        /\ last.exc = ""
        /\ DOMAIN defaults \subseteq FieldSet
        /\ \A f \in FieldSet :
              /\ f \in DOMAIN defaults <=> Cardinality(Working.input_sets[f]) = 1
              /\ f \in DOMAIN defaults => Working.input_sets[f] = {defaults[f]}

\* Defaults derived where one field has a single value, one has several, the
\* 'invalid' bucket holds one key, and a default set before is gone.
C20_Witness ==
    /\ last.op = "get_defaults_dict" /\ last.kind = "from_ods" /\ last.exc = ""
    /\ \E f \in FieldSet : Cardinality(Working.input_sets[f]) = 1
    /\ \E f \in FieldSet : Cardinality(Working.input_sets[f]) > 1
    /\ Cardinality(Working.input_sets_invalid) = 1
    /\ \E f \in DOMAIN last.pre.defaults : f \notin DOMAIN defaults

-----------------------------------------------------------------------------
(* Instances created, filled and reset. *)

ResetArgs ==
    {AllInstances, TheInstances(<<"primary">>), TheInstances(<<"B">>),
     TheInstances(<<"primary", "B">>)}

InitInst ==
    /\ ods = NewODS.ods
    /\ working_instance = NewODS.working_instance
    /\ defaults = NewODS.defaults
    /\ last = NoCall
    /\ budget = MaxInstOps
    /\ remote = <<>>
    /\ logfile = [exists |-> FALSE, rows |-> <<>>]
    /\ arg = <<>>
    /\ res = <<>>
    /\ pc = "idle"

NextInst ==
    \/ \E name \in Names, set_as_working \in BOOLEAN : OdsInstance(name, set_as_working)
    \/ \E instances \in ResetArgs : ResetOdsInstances(instances)
    \/ \E kwargs \in {RecR, RecS}, name \in Names : AddNewRecord(kwargs, name)

SpecInst == InitInst /\ [][NextInst]_vars

\* C15: ods_instance under a name that exists fails and leaves every store
\* and the working-instance name as they were; under a new name it returns and
\* adds an empty store, the other stores staying as they were.
C15_DuplicateNameFails ==
    last.op = "ods_instance" =>
        IF last.name \in DOMAIN last.pre.ods
        THEN /\ last.exc # ""
             /\ ods = last.pre.ods
             /\ working_instance = last.pre.working_instance
        ELSE /\ last.exc = ""
             /\ DOMAIN ods = DOMAIN last.pre.ods \cup {last.name}
             /\ ods[last.name] = ODSInstance(last.name)
             /\ \A n \in DOMAIN last.pre.ods : ods[n] = last.pre.ods[n]

\* C16: reset_ods_instances returns; after a reset of named instances every
\* one of them that existed is an empty store; after a reset of 'all' the
\* engine holds the working instance only, and it is an empty store.
C16_ResetLeavesEmptyStore ==
    last.op = "reset_ods_instances" =>
        /\ last.exc = ""
        /\ IF last.kind = "all"
           THEN /\ DOMAIN ods = {working_instance}
                /\ ods[working_instance] = ODSInstance(working_instance)
           ELSE \A i \in DOMAIN last.names :
                    last.names[i] \in DOMAIN last.pre.ods
                        => ods[last.names[i]] = ODSInstance(last.names[i])

-----------------------------------------------------------------------------
(* ODSCheck.coverage as a function: one call on a store, made directly or    *)
(* through plot_ods_coverage with the bounds of the span.                    *)

CovRecords == {Win(0, 2), Win(1, 4), Win(3, 5)}

CovInputs ==
    {[entries |-> l, starting |-> a, stopping |-> b, time_step_min |-> dt] :
        l \in UNION {[1..n -> CovRecords] : n \in 1..2},
        a \in {0, 3}, b \in {2, 5}, dt \in {1, 2}}

InitCov ==
    /\ EngineIdle
    /\ arg \in CovInputs
    /\ res = <<>>
    /\ pc = "call"

\* The store the call is made on.
CovStore == [ODSInstance("primary") EXCEPT !.entries = arg.entries]

CallCoverage ==
    /\ pc = "call"
    /\ res' = coverage(CovStore, arg.time_step_min)
    /\ pc' = "done"
    /\ UNCHANGED <<ods, working_instance, defaults, last, budget, remote, logfile, arg>>

CallPlotOdsCoverage ==
    /\ pc = "call"
    /\ res' = plot_ods_coverage(SetStore(NewODS, "primary", CovStore), NoName,
                                arg.starting, arg.stopping, arg.time_step_min)
    /\ pc' = "plotted"
    /\ UNCHANGED <<ods, working_instance, defaults, last, budget, remote, logfile, arg>>

NextCov == CallCoverage \/ CallPlotOdsCoverage

SpecCov == InitCov /\ [][NextCov]_vars

\* The span [starting, stopping] lies outside every record's interval, or
\* inside the interval of one record.
SpanOutside ==
    \A i \in DOMAIN arg.entries :
        \/ arg.stopping < arg.entries[i][std_start].a
        \/ arg.entries[i][std_stop].a < arg.starting

SpanInside ==
    \E i \in DOMAIN arg.entries :
        /\ arg.entries[i][std_start].a <= arg.starting
        /\ arg.stopping <= arg.entries[i][std_stop].a

\* C21: coverage boundary.  A coverage call, direct or through
\* plot_ods_coverage, returns a sequence of ticks and a sequence of 0/1 flags
\* of the same length; no tick lies outside [starting, stopping]; every flag
\* is 0 when the span lies outside every record's interval and 1 when it lies
\* inside the interval of one record.
C21_CoverageBoundary ==
    pc \in {"done", "plotted"} =>
        /\ res.exc = ""
        /\ res.is_pair
        /\ Len(res.ticks) = Len(res.flags)
        /\ \A i \in DOMAIN res.ticks :
              arg.starting <= res.ticks[i] /\ res.ticks[i] <= arg.stopping
        /\ SpanOutside => \A i \in DOMAIN res.flags : res.flags[i] = 0
        /\ SpanInside => \A i \in DOMAIN res.flags : res.flags[i] = 1

-----------------------------------------------------------------------------
(* A store filled by read_ods and add_new_record, converted, and written to  *)
(* a json file; res holds the file.                                          *)

NoFile == [exists |-> FALSE, complete |-> FALSE, data |-> <<>>]

InitRound ==
    /\ ods = NewODS.ods
    /\ working_instance = NewODS.working_instance
    /\ defaults = NewODS.defaults
    /\ last = NoCall
    /\ budget = MaxRoundOps
    /\ remote = <<>>
    /\ logfile = [exists |-> FALSE, rows |-> <<>>]
    /\ arg = <<>>
    /\ res = NoFile
    /\ pc = "idle"

\* ODS.write_ods(file_name, name): a warning when the store holds no record,
\* then ODSInstance.write.
WriteOds(name) ==
    /\ budget > 0
    /\ name \in DOMAIN ods /\ Usable(name)
    /\ LET Written(w) ==
               /\ ods' = SetStore(Cur, name, w.st).ods
               /\ res' = w.file
               /\ last' = [NoCall EXCEPT !.op = "write_ods", !.name = name,
                                          !.exc = w.exc, !.pre = Cur,
                                          !.warn = ods[name].number_of_records = 0]
       IN Written(write(ods[name], res))
    /\ budget' = budget - 1
    /\ UNCHANGED <<working_instance, defaults, remote, logfile, arg, pc>>

\* r without a stop: new_record makes its stop None.
RecOpen == [site_lat_deg |-> Num(1), src_id |-> Str(1), src_start_utc |-> TStr(0, 0)]

NextRound ==
    \/ \E data \in {<<RecR>>, <<RecR, RecS>>} : ReadOds(Mapping(data), "primary")
    \/ \E kwargs \in {RecR, RecS, RecFoo, RecOpen} : AddNewRecord(kwargs, "primary")
    \/ MakeTime("primary")
    \/ ConvertTimeToStr("primary")
    \/ WriteOds("primary")

SpecRound == InitRound /\ [][NextRound]_vars

\* What reading the written file into a fresh instance gives.
ReadBack == read(ODSInstance("fresh"), FileName)

\* C22: round trip.  On a store whose records all pass validation write_ods
\* returns, and reading the written file into a fresh instance returns a store
\* with as many records, each is_same-equal to a record of the original at a
\* position of its own.
C22_WriteReadRoundTrip ==
    (last.op = "write_ods" /\ LastOnStore
        /\ \A i \in DOMAIN StoreBefore.entries : PassesValidation(StoreBefore.entries[i])) =>
        /\ last.exc = ""
        /\ ReadBack.exc = ""
        /\ Len(ReadBack.st.entries) = Len(StoreBefore.entries)
        /\ \E p \in [DOMAIN StoreBefore.entries -> DOMAIN StoreBefore.entries] :
              /\ \A n, m \in DOMAIN p : p[n] = p[m] => n = m
              /\ \A n \in DOMAIN p :
                    is_same(ReadBack.st.entries[n], StoreBefore.entries[p[n]])

\* The form the last conversion asked for.
AskedForm == IF last.op = "make_time" THEN "time" ELSE "string"

\* C23: the time-form conversions are idempotent whole-store operations.
\* make_time on a store whose flag says 'time' and convert_time_to_str on a
\* store whose flag says 'string' return and change neither a record nor the
\* flag; and after either conversion the same conversion once more returns
\* and leaves the store as the first left it.
C23_ConversionsIdempotent ==
    (last.op \in {"make_time", "convert_time_to_str"} /\ LastOnStore) =>
        /\ StoreBefore.time_format = AskedForm =>
              (last.exc = "" /\ StoreAfter = StoreBefore)
        /\ ConvertStore(StoreAfter, AskedForm).exc = ""
        /\ ConvertStore(StoreAfter, AskedForm).st = StoreAfter

\* make_time on a store whose flag says 'time' and that holds a record with
\* its times still strings.
C23_Witness ==
    /\ last.op = "make_time" /\ LastOnStore /\ last.exc = ""
    /\ StoreBefore.time_format = "time"
    /\ \E i \in DOMAIN StoreAfter.entries :
          Representation(StoreAfter.entries[i][std_start]) = "string"

-----------------------------------------------------------------------------
(* ODSInstance.gen_info as a function: one call on a store whose records     *)
(* carry times within and beyond the two reference times.                    *)

\* An instant before REF_EARLIEST_TIME, two between the reference times, and
\* one after REF_LATEST_TIME.
InfoTimes == {REF_EARLIEST_TIME - 1, 1, 4, REF_LATEST_TIME + 1}

InfoRecords ==
    UNION {{Win(a, b) : b \in {t \in InfoTimes : t >= a}} : a \in InfoTimes}

InfoInputs == UNION {[1..n -> InfoRecords] : n \in 0..2}

InitInfo ==
    /\ EngineIdle
    /\ arg \in InfoInputs
    /\ res = <<>>
    /\ pc = "call"

CallGenInfo ==
    /\ pc = "call"
    /\ res' = gen_info([ODSInstance("primary") EXCEPT !.entries = arg])
    /\ pc' = "done"
    /\ UNCHANGED <<ods, working_instance, defaults, last, budget, remote, logfile, arg>>

SpecInfo == InitInfo /\ [][CallGenInfo]_vars

\* C26: earliest/latest aggregates.  gen_info returns; on a store without
\* records earliest is REF_LATEST_TIME and latest is REF_EARLIEST_TIME; on
\* any other store earliest is the least start and latest the greatest stop
\* of its records, wherever those times lie.
C26_EarliestLatest ==
    pc = "done" =>
        /\ res.exc = ""
        /\ IF arg = <<>>
           THEN /\ res.st.earliest = Tm(REF_LATEST_TIME)
                /\ res.st.latest = Tm(REF_EARLIEST_TIME)
           ELSE /\ \E i \in DOMAIN arg : res.st.earliest.a = arg[i][std_start].a
                /\ \A i \in DOMAIN arg : res.st.earliest.a <= arg[i][std_start].a
                /\ \E i \in DOMAIN arg : res.st.latest.a = arg[i][std_stop].a
                /\ \A i \in DOMAIN arg : res.st.latest.a >= arg[i][std_stop].a

-----------------------------------------------------------------------------
(* ODSCheck.observation as a function: one call on one record, with a table *)
(* of elevations.                                                            *)

\* Elevations below and above the limit, in degrees.
Elevations == {5, 15}

ObsInputs ==
    {[rec |-> [RecR EXCEPT !.src_start_utc = TStr(a, 0), !.src_end_utc = TStr(b, 0)],
      el_lim_deg |-> 10, dt_sec |-> dt, alt |-> alt] :
        a \in {0, 2, MaxT}, b \in {0, 2, MaxT}, dt \in {1, 2},
        alt \in [0..MaxT -> Elevations]}

InitObs ==
    /\ EngineIdle
    /\ arg \in ObsInputs
    /\ res = <<>>
    /\ pc = "call"

CallObservation ==
    /\ pc = "call"
    /\ \E empty_time \in {"ValueError", "empty"} :
          res' = observation(arg.rec, arg.el_lim_deg, arg.dt_sec, arg.alt, empty_time)
    /\ pc' = "done"
    /\ UNCHANGED <<ods, working_instance, defaults, last, budget, remote, logfile, arg>>

SpecObs == InitObs /\ [][CallObservation]_vars

\* The instants start, start + step, ... below stop, and those of them at
\* which the elevation exceeds the limit.
ObsSamples ==
    {t \in 0..MaxT :
        /\ arg.rec[std_start].a <= t /\ t < arg.rec[std_stop].a
        /\ (t - arg.rec[std_start].a) % arg.dt_sec = 0}

ObsQualifying == {t \in ObsSamples : arg.alt[t] > arg.el_lim_deg}

\* C27: the observation window.  observation returns; with a qualifying
\* sample it returns the earliest and the latest qualifying sample times (so
\* start <= first <= last < stop); with samples but none qualifying it
\* returns the 'never above the horizon' signal, False; with no sample at all
\* (start >= stop) it returns a signal that is neither of the two.
C27_ObservationWindow ==
    pc = "done" =>
        /\ res.exc = ""
        /\ IF ObsSamples = {} THEN res.value \notin {"False", "tuple"}
           ELSE IF ObsQualifying = {} THEN res.value = "False"
           ELSE /\ res.value = "tuple"
                /\ res.first.a \in ObsQualifying /\ res.last.a \in ObsQualifying
                /\ \A t \in ObsQualifying : res.first.a <= t /\ t <= res.last.a
                /\ arg.rec[std_start].a <= res.first.a
                /\ res.first.a <= res.last.a
                /\ res.last.a < arg.rec[std_stop].a

-----------------------------------------------------------------------------
(* A store filled by read_ods and add_new_record, with records that differ   *)
(* in one field only, and rid of its duplicates.                             *)

\* r with another src_id.
RecY == [RecR EXCEPT !.src_id = Str(2)]

InitDedup ==
    /\ ods = NewODS.ods
    /\ working_instance = NewODS.working_instance
    /\ defaults = NewODS.defaults
    /\ last = NoCall
    /\ budget = MaxDedupOps
    /\ remote = <<>>
    /\ logfile = [exists |-> FALSE, rows |-> <<>>]
    /\ arg = <<>>
    /\ res = <<>>
    /\ pc = "idle"

NextDedup ==
    \/ \E data \in {<<RecR, RecR, RecY>>, <<RecR, RecNone>>, <<RecS, RecR>>, <<RecFoo>>} :
          ReadOds(Mapping(data), "primary")
    \/ \E kwargs \in {RecR, RecY, RecNoneStr, RecOpen} : AddNewRecord(kwargs, "primary")
    \/ ConvertTimeToStr("primary")
    \/ CullByDuplicate("primary")

SpecDedup == InitDedup /\ [][NextDedup]_vars

\* The records cull_by_duplicate sorts: the store's, after its
\* convert_time_to_str.
DedupInput == convert_time_to_str(StoreBefore).st.entries

\* The records it keeps: what sort_entries returns for them.
DedupSurvivors == sort_entries(DedupInput, sort_order_time, TRUE, FALSE).out

\* A record after the make_time of gen_info.
TimesMade(rec) ==
    [f \in DOMAIN rec |->
        IF f \in {"src_start_utc", "src_end_utc"} THEN make_time(rec[f]).v ELSE rec[f]]

-----------------------------------------------------------------------------
(* The online monitor run again and again (from a crontab), each run in the   *)
(* same engine or, after a restart, in a fresh one, the URL serving the same  *)
(* records throughout.                                                        *)

\* What the URL serves.
RemoteLists == {<<RecR>>, <<RecR, RecS>>, <<RecS, RecO>>, <<RecR, RecRb>>}

InitMon ==
    /\ ods = NewODS.ods
    /\ working_instance = NewODS.working_instance
    /\ defaults = NewODS.defaults
    /\ last = NoCall
    /\ budget = MaxCycles
    /\ remote \in RemoteLists
    /\ logfile \in {[exists |-> e, rows |-> <<>>] : e \in BOOLEAN}
    /\ arg = <<>>
    /\ res = <<>>
    /\ pc = "idle"

\* One run of the monitor at the instant now, no earlier than the run before;
\* last.cycle counts the runs that returned.
MonitorCycle(now) ==
    /\ budget > 0
    /\ now >= last.offset
    /\ LET Ran(r) ==
               /\ ods' = r.eng.ods
               /\ working_instance' = r.eng.working_instance
               /\ defaults' = r.eng.defaults
               /\ logfile' = r.file
               /\ last' = [NoCall EXCEPT !.op = "online_ods_monitor", !.offset = now,
                                          !.exc = r.exc, !.pre = Cur,
                                          !.cycle = IF r.exc = "" THEN last.cycle + 1
                                                    ELSE last.cycle,
                                          !.log_pre = logfile.rows]
       IN Ran(online_ods_monitor(Cur, remote, logfile, now))
    /\ budget' = budget - 1
    /\ UNCHANGED <<remote, arg, res, pc>>

\* The process ends and a new one starts: ODS.__init__ again.
Restart ==
    /\ budget > 0
    /\ last.op = "online_ods_monitor"
    /\ ods' = NewODS.ods
    /\ working_instance' = NewODS.working_instance
    /\ defaults' = NewODS.defaults
    /\ last' = [last EXCEPT !.op = "restart"]
    /\ budget' = budget - 1
    /\ UNCHANGED <<remote, logfile, arg, res, pc>>

NextMon ==
    \/ \E now \in 0..MaxT : MonitorCycle(now)
    \/ Restart

SpecMon == InitMon /\ [][NextMon]_vars

RowSet(rows) == {rows[i] : i \in DOMAIN rows}

\* C7: online-monitor idempotence.  Every run of the monitor after the first
\* that returned leaves the log with the set of records it had before the run,
\* and with no more records.
C7_MonitorIdempotent ==
    (last.op = "online_ods_monitor" /\ last.exc = "" /\ last.cycle >= 2) =>
        /\ RowSet(logfile.rows) = RowSet(last.log_pre)
        /\ Len(logfile.rows) <= Len(last.log_pre)

=============================================================================
